---- MODULE Spec2Model ----
(***************************************************************************)
(* A model of the AugurBot backend: the scan progress tracker and the scan *)
(* entry points, the store (markets, snapshots, estimates, recommendations,*)
(* trades, performance_log, config), the flows that write it (scan         *)
(* finalize, re-estimate, manual refresh, post-scan sweep, resolution      *)
(* pass, manual resolve, trade sync) and the blind prompt construction.    *)
(*                                                                         *)
(* Concurrency: one asyncio event loop.  The store client is synchronous,  *)
(* so the code between two awaits runs without interleaving; every action  *)
(* below is one such await-free stretch of a coroutine.                    *)
(*                                                                         *)
(* Money is in cents, prices in cents per contract (1..99), probabilities  *)
(* in percent, edge / ev / kelly in basis points (1e-4).                   *)
(***************************************************************************)
EXTENDS Integers, Sequences, FiniteSets, TLC

VARIABLES
    progress,     \* scan_progress._progress: is_running, phase, started_at
    scanPc,       \* position of each scan entry point
    scanStarts,   \* number of start_scan calls so far (bounded)
    markets,      \* markets table: status and outcome of each market row
    venue,        \* the exchange's state of each market: result and YES price
    orders,       \* the orders the exchange has accepted, in order of arrival
    fills,        \* the fills the exchange reports, in order of execution
    snapshots,    \* market_snapshots table, in insertion order
    estimates,    \* ai_estimates table, in insertion order
    recs,         \* recommendations table, in insertion order
    trades,       \* trades table, in insertion order
    perf,         \* performance_log table, in insertion order
    perfResult,   \* what the last insert_performance call returned
    config,       \* config table: bankroll, initial_bankroll, auto_trade_enabled
    flow,         \* research coroutines (scan market task, re-estimate, refresh)
    sweep,        \* post-scan sweep coroutines
    respass,      \* resolution pass coroutines
    sync,         \* trade sync coroutines
    mdata,        \* two market data records as the platform client returns them
    sent,         \* the model requests last built for the two, and on which path
    pipe,         \* one scan's pipeline over its fetched markets (sync or batch)
    jobs,         \* the scheduler's jobs: running instances, fires, failures
    book,         \* the open auto-trades: how many by path, and their total amount
    parse,        \* one model response on its way through the parser to the store
    calc,         \* one application of a pure function: its inputs and its result
    http,         \* one check_resolutions_batch call and the HTTP requests under it
    boot,         \* the process: lifespan position, restarts, stale sweeps run, wall clock
    slots         \* the tasks of one scan and the re-estimate loop around the LLM semaphore

scanVars == <<progress, scanPc, scanStarts>>

storeVars == <<markets, snapshots, estimates, recs, trades, perf, perfResult, config>>

venueVars == <<venue, orders, fills>>

taskVars == <<flow, sweep, respass, sync>>

blindVars == <<mdata, sent>>

pipeVars == <<pipe>>

schedVars == <<jobs>>

bookVars == <<book>>

parseVars == <<parse>>

calcVars == <<calc>>

httpVars == <<http>>

bootVars == <<boot>>

slotsVars == <<slots>>

vars == <<progress, scanPc, scanStarts, markets, venue, orders, fills,
          snapshots, estimates, recs, trades, perf, perfResult, config, flow,
          sweep, respass, sync, mdata, sent, pipe, jobs, book, parse, calc, http, boot,
          slots>>

(***************************************************************************)
(* Scan progress tracker and the three entry points of execute_scan.       *)
(***************************************************************************)

\* bound: how many scans may be started in one behaviour
MaxScanStarts == 4

HttpProcs == {"post_scan", "post_scan_platform"}
SchedProcs == {"full_scan_job"}
ScanProcs == HttpProcs \cup SchedProcs

\* The market task and the sweep each belong to one scan entry point
FlowOwner == [f1 |-> "post_scan", f2 |-> "full_scan_job"]

SweepOwner == [s1 |-> "post_scan", s2 |-> "full_scan_job"]

\* started_at in minutes of the wall clock, -1 for None
ProgressInit == [is_running |-> FALSE, phase |-> "idle", started_at |-> -1]

start_scan(pr) ==
    [pr EXCEPT !.is_running = TRUE, !.phase = "fetching",
               !.started_at = boot.now]

set_markets_found(pr) == [pr EXCEPT !.phase = "researching"]

complete_scan(pr) == [pr EXCEPT !.is_running = FALSE, !.phase = "complete"]

fail_scan(pr) == [pr EXCEPT !.is_running = FALSE, !.phase = "failed"]

\* POST /scan and POST /scan/{platform}: the is_running check, then the
\* background task is queued; execute_scan runs after the response is sent.
TriggerScan(p) ==
    /\ p \in HttpProcs
    /\ scanPc[p] = "idle"
    /\ ~progress.is_running
    /\ scanPc' = [scanPc EXCEPT ![p] = "queued"]
    /\ UNCHANGED <<progress, scanStarts>>
    /\ UNCHANGED <<storeVars, venueVars, taskVars, blindVars, pipeVars,
                   schedVars, bookVars, parseVars, calcVars, httpVars,
                   bootVars, slotsVars>>

\* The same handlers when a scan is running: HTTP 409, nothing changes.
TriggerScanBusy(p) ==
    /\ p \in HttpProcs
    /\ scanPc[p] = "idle"
    /\ progress.is_running
    /\ scanPc' = [scanPc EXCEPT ![p] = "rejected"]
    /\ UNCHANGED <<progress, scanStarts>>
    /\ UNCHANGED <<storeVars, venueVars, taskVars, blindVars, pipeVars,
                   schedVars, bookVars, parseVars, calcVars, httpVars,
                   bootVars, slotsVars>>

RejectedReturn(p) ==
    /\ scanPc[p] = "rejected"
    /\ scanPc' = [scanPc EXCEPT ![p] = "idle"]
    /\ UNCHANGED <<progress, scanStarts>>
    /\ UNCHANGED <<storeVars, venueVars, taskVars, blindVars, pipeVars,
                   schedVars, bookVars, parseVars, calcVars, httpVars,
                   bootVars, slotsVars>>

\* Whether entry point p is about to enter execute_scan: a queued background
\* task, or a fire of the scheduler's full_scan job (max_instances=1: the job
\* is idle), which calls execute_scan without reading is_running.
CanEnterScan(p) ==
    \/ p \in HttpProcs /\ scanPc[p] = "queued"
    \/ p \in SchedProcs /\ scanPc[p] = "idle"

\* execute_scan up to its first await: start_scan, Researcher(), get_config().
ExecuteScanStart(p) ==
    /\ CanEnterScan(p)
    /\ scanStarts < MaxScanStarts
    /\ progress' = start_scan(progress)
    /\ scanPc' = [scanPc EXCEPT ![p] = "fetching"]
    /\ scanStarts' = scanStarts + 1
    /\ UNCHANGED <<storeVars, venueVars, taskVars, blindVars, pipeVars,
                   schedVars, bookVars, parseVars, calcVars, httpVars,
                   bootVars, slotsVars>>

\* The same stretch when Researcher() or get_config() raises: both sit before
\* the try block, so neither complete_scan nor fail_scan runs.
ExecuteScanStartRaise(p) ==
    /\ CanEnterScan(p)
    /\ scanStarts < MaxScanStarts
    /\ progress' = start_scan(progress)
    /\ scanPc' = [scanPc EXCEPT ![p] = "idle"]
    /\ scanStarts' = scanStarts + 1
    /\ UNCHANGED <<storeVars, venueVars, taskVars, blindVars, pipeVars,
                   schedVars, bookVars, parseVars, calcVars, httpVars,
                   bootVars, slotsVars>>

\* fetch_markets returned: date filter, set_markets_found, tasks created.
FetchDone(p) ==
    /\ scanPc[p] = "fetching"
    /\ progress' = set_markets_found(progress)
    /\ scanPc' = [scanPc EXCEPT ![p] = "researching"]
    /\ UNCHANGED scanStarts
    /\ UNCHANGED <<storeVars, venueVars, taskVars, blindVars, pipeVars,
                   schedVars, bookVars, parseVars, calcVars, httpVars,
                   bootVars, slotsVars>>

\* fetch_markets (or the platform client) raised: caught per platform, the
\* loop ends and complete_scan runs.
FetchRaise(p) ==
    /\ scanPc[p] = "fetching"
    /\ progress' = complete_scan(progress)
    /\ scanPc' = [scanPc EXCEPT ![p] = "post"]
    /\ UNCHANGED scanStarts
    /\ UNCHANGED <<storeVars, venueVars, taskVars, blindVars, pipeVars,
                   schedVars, bookVars, parseVars, calcVars, httpVars,
                   bootVars, slotsVars>>

\* gather() returned (every market task of this scan has ended): counters
\* summed, complete_scan, summary saved.
ResearchDone(p) ==
    /\ scanPc[p] = "researching"
    /\ \A f \in DOMAIN FlowOwner : FlowOwner[f] = p => flow[f].pc = "idle"
    /\ progress' = complete_scan(progress)
    /\ scanPc' = [scanPc EXCEPT ![p] = "post"]
    /\ UNCHANGED scanStarts
    /\ UNCHANGED <<storeVars, venueVars, taskVars, blindVars, pipeVars,
                   schedVars, bookVars, parseVars, calcVars, httpVars,
                   bootVars, slotsVars>>

\* gather() returned and complete_scan ran, then save_scan_summary raised:
\* the outer handler of execute_scan calls fail_scan and re-raises.  (Inside
\* the platform loop every exception is caught by the per-platform handler.)
ScanFail(p) ==
    /\ scanPc[p] = "researching"
    /\ \A f \in DOMAIN FlowOwner : FlowOwner[f] = p => flow[f].pc = "idle"
    /\ progress' = fail_scan(complete_scan(progress))
    /\ scanPc' = [scanPc EXCEPT ![p] = "idle"]
    /\ UNCHANGED scanStarts
    /\ UNCHANGED <<storeVars, venueVars, taskVars, blindVars, pipeVars,
                   schedVars, bookVars, parseVars, calcVars, httpVars,
                   bootVars, slotsVars>>

\* Notifications and the sweep were awaited; execute_scan returns.
ScanReturn(p) ==
    /\ scanPc[p] = "post"
    /\ \A w \in DOMAIN SweepOwner : SweepOwner[w] = p => sweep[w].pc = "idle"
    /\ scanPc' = [scanPc EXCEPT ![p] = "idle"]
    /\ UNCHANGED <<progress, scanStarts>>
    /\ UNCHANGED <<storeVars, venueVars, taskVars, blindVars, pipeVars,
                   schedVars, bookVars, parseVars, calcVars, httpVars,
                   bootVars, slotsVars>>

(***************************************************************************)
(* services/calculator.py, in integer units.  A price pc is in cents, a    *)
(* probability pp in percent; fees and unrounded ev are in 1e-6, rounded   *)
(* edge / ev / kelly in basis points.                                      *)
(***************************************************************************)

\* settings defaults (config.py)
min_edge_threshold == 300          \* 0.03
kelly_fraction == 33               \* 0.33, in percent
max_single_bet_fraction == 500     \* 0.05
auto_trade_min_ev == 500           \* 0.05
DefaultBankroll == 1000000         \* 10000.0 dollars, in cents

\* round(n / d) for d > 0, halves away from zero
Round(n, d) == IF n >= 0 THEN (2 * n + d) \div (2 * d)
                         ELSE 0 - ((2 * (0 - n) + d) \div (2 * d))

Min(a, b) == IF a <= b THEN a ELSE b

Max(a, b) == IF a >= b THEN a ELSE b

\* 0.07 * price * (1 - price), in 1e-6
kalshi_fee(pc) == 7 * pc * (100 - pc)

NoEv == [direction |-> "none", edge |-> 0, ev |-> 0]

\* calculate_ev taking a side whose ev is not negative
CalculateEvNonStrict(pp, pc) ==
    LET yes_edge == (pp - pc) * 10000
        yes_ev   == yes_edge - kalshi_fee(pc)
        no_edge  == (pc - pp) * 10000
        no_ev    == no_edge - kalshi_fee(100 - pc)
    IN  IF yes_ev >= 0 /\ yes_ev >= no_ev
        THEN [direction |-> "yes", edge |-> Round(yes_edge, 100),
              ev |-> Round(yes_ev, 100)]
        ELSE IF no_ev >= 0
        THEN [direction |-> "no", edge |-> Round(no_edge, 100),
              ev |-> Round(no_ev, 100)]
        ELSE NoEv

\* calculate_ev on the kalshi platform; NoEv stands for None
calculate_ev(pp, pc) ==
    LET yes_edge == (pp - pc) * 10000
        yes_ev   == yes_edge - kalshi_fee(pc)
        no_edge  == (pc - pp) * 10000
        no_ev    == no_edge - kalshi_fee(100 - pc)
    IN  IF yes_ev > 0 /\ yes_ev >= no_ev
        THEN [direction |-> "yes", edge |-> Round(yes_edge, 100),
              ev |-> Round(yes_ev, 100)]
        ELSE IF no_ev > 0
        THEN [direction |-> "no", edge |-> Round(no_edge, 100),
              ev |-> Round(no_ev, 100)]
        ELSE NoEv

\* CONFIDENCE_MULTIPLIERS, in tenths; unknown keys fall back to 0.6
ConfidenceMult(confidence) ==
    CASE confidence = "high" -> 10
      [] confidence = "medium" -> 6
      [] confidence = "low" -> 3
      [] OTHER -> 6

\* calculate_kelly with the settings defaults, result in basis points
calculate_kelly(edge, pc, direction, confidence) ==
    LET denominator == IF direction = "yes" THEN 100 - pc ELSE pc
        num == edge * kelly_fraction * ConfidenceMult(confidence)
        den == denominator * 10
    IN  IF denominator <= 0 THEN 0
        ELSE IF num <= 0 THEN 0
        ELSE IF num >= max_single_bet_fraction * den THEN max_single_bet_fraction
        ELSE Round(num, den)

\* calculate_kelly with its two optional arguments given: edge in basis
\* points, fraction in percent, max_fraction and the result in 1e-5.  The
\* bet is edge * fraction * mult / denominator in 1e-5, floored at 0, capped
\* at max_fraction and then rounded to four decimals.
calculate_kelly_with(edge, pc, direction, confidence, fraction, max_fraction) ==
    LET denominator == IF direction = "yes" THEN 100 - pc ELSE pc
        num == edge * fraction * ConfidenceMult(confidence)
    IN  IF denominator <= 0 THEN 0
        ELSE IF num >= max_fraction * denominator
        THEN 10 * Round(Max(0, max_fraction), 10)
        ELSE IF num <= 0 THEN 0
        ELSE 10 * Round(num, 10 * denominator)

KellyEdges == {-3000, 0, 50, 3000, 10000}

KellyPrices == {0, 40, 100}

KellyFractions == {-33, 0, 33, 100}

KellyMaxFractions == {-100, 0, 6, 3336, 5000}

KellyInputs ==
    [edge : KellyEdges, market_price : KellyPrices,
     direction : {"yes", "no"},
     confidence : {"high", "medium", "low", "unknown"},
     kelly_fraction : KellyFractions, max_bet_fraction : KellyMaxFractions]

CalcIdle == [fn |-> "none", pc |-> "idle"]

\* One call of calculate_kelly
CallKelly ==
    /\ calc.fn = "calculate_kelly"
    /\ calc.pc = "called"
    /\ calc' = [calc EXCEPT
                  !.pc = "returned",
                  !.result = calculate_kelly_with(
                      calc.args.edge, calc.args.market_price,
                      calc.args.direction, calc.args.confidence,
                      calc.args.kelly_fraction, calc.args.max_bet_fraction)]
    /\ UNCHANGED <<scanVars, storeVars, venueVars, taskVars, blindVars,
                   pipeVars, schedVars, bookVars, parseVars, httpVars,
                   bootVars, slotsVars>>

\* One call of calculate_ev on (p_ai, p_mkt) and one on (1 - p_ai, 1 - p_mkt)
CallEv ==
    /\ calc.fn = "calculate_ev"
    /\ calc.pc = "called"
    /\ calc' = [calc EXCEPT
                  !.pc = "returned",
                  !.result = calculate_ev(calc.args.ai_probability,
                                          calc.args.market_price),
                  !.mirrored = calculate_ev(100 - calc.args.ai_probability,
                                            100 - calc.args.market_price)]
    /\ UNCHANGED <<scanVars, storeVars, venueVars, taskVars, blindVars,
                   pipeVars, schedVars, bookVars, parseVars, httpVars,
                   bootVars, slotsVars>>

\* A score against the outcome that did not happen
BrierOfOtherOutcome(probability, outcome) ==
    LET outcome_val == IF outcome THEN 0 ELSE 1000
    IN  Round((probability - outcome_val) * (probability - outcome_val), 100)

\* calculate_brier_score: probability in 1e-3, the score in 1e-4
calculate_brier_score(probability, outcome) ==
    LET outcome_val == IF outcome THEN 1000 ELSE 0
    IN  Round((probability - outcome_val) * (probability - outcome_val), 100)

\* calculate_brier_score(p, True) and calculate_brier_score(1 - p, False)
CallBrier ==
    /\ calc.fn = "calculate_brier_score"
    /\ calc.pc = "called"
    /\ calc' = [calc EXCEPT
                  !.pc = "returned",
                  !.result = calculate_brier_score(calc.args.probability, TRUE),
                  !.mirrored = calculate_brier_score(
                                   1000 - calc.args.probability, FALSE)]
    /\ UNCHANGED <<scanVars, storeVars, venueVars, taskVars, blindVars,
                   pipeVars, schedVars, bookVars, parseVars, httpVars,
                   bootVars, slotsVars>>

\* The confidence gate ahead of the weak-estimate filter
ShouldRecommendGateFirst(ev, confidence, ai_estimate, min_edge) ==
    IF confidence # "none"
    THEN CASE confidence = "low" -> FALSE
           [] confidence = "medium" -> ev >= 800
           [] confidence = "high" -> ev >= 500
           [] OTHER -> ev >= 800
    ELSE IF ai_estimate # -1 /\ 42 <= ai_estimate /\ ai_estimate <= 58
    THEN ev >= 1200
    ELSE ev >= (IF min_edge = -1 THEN 300 ELSE min_edge)

\* should_recommend with all four parameters; confidence "none", ai_estimate
\* -1 and min_edge -1 stand for None
should_recommend_with(ev, confidence, ai_estimate, min_edge) ==
    IF ai_estimate # -1 /\ 42 <= ai_estimate /\ ai_estimate <= 58
    THEN ev >= 1200
    ELSE IF confidence # "none"
    THEN CASE confidence = "low" -> FALSE
           [] confidence = "medium" -> ev >= 800
           [] confidence = "high" -> ev >= 500
           [] OTHER -> ev >= 800
    ELSE ev >= (IF min_edge = -1 THEN min_edge_threshold ELSE min_edge)

\* should_recommend as the scanner calls it, min_edge left to its default
should_recommend(ev, confidence, ai_estimate) ==
    should_recommend_with(ev, confidence, ai_estimate, -1)

\* One call of should_recommend
CallShouldRecommend ==
    /\ calc.fn = "should_recommend"
    /\ calc.pc = "called"
    /\ calc' = [calc EXCEPT
                  !.pc = "returned",
                  !.result = should_recommend_with(calc.args.ev,
                                                   calc.args.confidence,
                                                   calc.args.ai_estimate,
                                                   calc.args.min_edge)]
    /\ UNCHANGED <<scanVars, storeVars, venueVars, taskVars, blindVars,
                   pipeVars, schedVars, bookVars, parseVars, httpVars,
                   bootVars, slotsVars>>

(***************************************************************************)
(* models/database.py: the tables as sequences in insertion order; a row   *)
(* id is its index, 0 stands for no row.                                   *)
(***************************************************************************)

Markets == {"m1"}

NoMarket == [status |-> "none", outcome |-> "none"]

\* upsert_market: the payload carries no status; a new row gets the
\* column default, an existing row keeps its status and outcome.
upsert_market(ms, m) ==
    IF ms[m].status = "none"
    THEN [ms EXCEPT ![m] = [status |-> "active", outcome |-> "none"]]
    ELSE ms

\* update_market_status: unconditional; outcome is written only when given
update_market_status(ms, m, status, outcome) ==
    IF ms[m].status = "none" THEN ms
    ELSE [ms EXCEPT ![m] = [status |-> status,
                            outcome |-> IF outcome # "none" THEN outcome
                                        ELSE ms[m].outcome]]

Latest(tbl, m) ==
    LET ids == {i \in DOMAIN tbl : tbl[i].market = m}
    IN  IF ids = {} THEN 0 ELSE CHOOSE i \in ids : \A j \in ids : j <= i

insert_snapshot(ss, m, pc) == Append(ss, [market |-> m, price_yes |-> pc])

get_latest_snapshot(ss, m) == Latest(ss, m)

insert_estimate(es, m, pp, confidence) ==
    Append(es, [market |-> m, probability |-> pp, confidence |-> confidence])

get_latest_estimate(es, m) == Latest(es, m)

insert_recommendation(rs, row) == Append(rs, [row EXCEPT !.status = "active"])

get_recommendation_for_market(rs, m) == Latest(rs, m)

SetRecStatus(rs, m, status) ==
    [i \in DOMAIN rs |->
        IF rs[i].market = m /\ rs[i].status = "active"
        THEN [rs[i] EXCEPT !.status = status] ELSE rs[i]]

\* A writer that leaves the older recommendations as they are
KeepRecommendations(rs, m) == rs

expire_recommendations(rs, m) == SetRecStatus(rs, m, "expired")

resolve_recommendations(rs, m) == SetRecStatus(rs, m, "resolved")

get_active_recommendations(rs) == {i \in DOMAIN rs : rs[i].status = "active"}

get_untraded_active_recommendations(rs, ts) ==
    {i \in get_active_recommendations(rs) :
        \A t \in DOMAIN ts : ts[t].rec # i}

\* insert_trade: a new open trade; pnl and closed_at are null.  via names the
\* code path that made the call.
insert_trade(ts, m, direction, entry_price, amount, shares, rec, ptid, via) ==
    Append(ts, [market |-> m, rec |-> rec, direction |-> direction,
                entry_price |-> entry_price, amount |-> amount,
                shares |-> shares, fees_paid |-> 0, status |-> "open",
                pnl_set |-> FALSE, pnl |-> 0, closed_at |-> FALSE,
                platform_trade_id |-> ptid, via |-> via])

OpenTrades(ts, m) ==
    {t \in DOMAIN ts : ts[t].market = m /\ ts[t].status = "open"}

\* cancel_trades_for_market: status, closed_at and notes are written
cancel_trades_for_market(ts, m) ==
    [t \in DOMAIN ts |->
        IF t \in OpenTrades(ts, m)
        THEN [ts[t] EXCEPT !.status = "cancelled", !.closed_at = TRUE]
        ELSE ts[t]]

\* The pnl close_trades_for_market computes for one trade, in 1e-4 dollars
\* (amount and fees are in cents, prices in cents; exit_price is 0 or 100).
TradePnl(tr, exit_price) ==
    IF tr.direction = "yes"
    THEN IF exit_price >= 99
         THEN Round(tr.amount * 100 * (100 - tr.entry_price), tr.entry_price)
              - tr.fees_paid * 100
         ELSE 0 - tr.amount * 100 - tr.fees_paid * 100
    ELSE IF exit_price <= 1
         THEN IF 100 - tr.entry_price > 0
              THEN Round(tr.amount * 100 * tr.entry_price, 100 - tr.entry_price)
                   - tr.fees_paid * 100
              ELSE 0 - tr.fees_paid * 100
         ELSE 0 - tr.amount * 100 - tr.fees_paid * 100

close_trades_for_market(ts, m, exit_price) ==
    [t \in DOMAIN ts |->
        IF t \in OpenTrades(ts, m)
        THEN [ts[t] EXCEPT !.status = "closed", !.pnl_set = TRUE,
                           !.pnl = TradePnl(ts[t], exit_price),
                           !.closed_at = TRUE]
        ELSE ts[t]]

PerfRows(pf, m) == {i \in DOMAIN pf : pf[i].market = m}

\* An insert without the existence guard
AppendPerformance(pf, row) == Append(pf, row)

\* insert_performance: the existence guard, then the insert
insert_performance(pf, row) ==
    IF PerfRows(pf, row.market) # {} THEN pf ELSE Append(pf, row)

\* what insert_performance returns: None when the guard skipped the insert
insert_performance_result(pf, row) ==
    IF PerfRows(pf, row.market) # {} THEN "none" ELSE "row"

\* resolve_market_trades, trades part: exit price from the outcome
ResolveTrades(ts, m, outcome) ==
    close_trades_for_market(ts, m, IF outcome = "yes" THEN 100 ELSE 0)

\* resolve_market_trades, performance part: a row only when the market has
\* an estimate and a snapshot
PerfRow(m, outcome) ==
    [market |-> m,
     rec |-> get_recommendation_for_market(recs, m),
     ai_probability |-> estimates[get_latest_estimate(estimates, m)].probability,
     market_price |-> snapshots[get_latest_snapshot(snapshots, m)].price_yes,
     actual_outcome |-> outcome]

HasEstimateAndSnapshot(m) ==
    /\ get_latest_estimate(estimates, m) # 0
    /\ get_latest_snapshot(snapshots, m) # 0

\* Auto-trade sizing: bet_amount = min(kelly * bankroll, max_bet), in 1e-4
\* cents; the bet is placed when it is at least one dollar.
BetAmount(kelly, bankroll) ==
    Min(kelly * bankroll, max_single_bet_fraction * bankroll)

PriceCents(pc) == Max(1, Min(99, pc))

PricePerContract(direction, pc) ==
    IF direction = "yes" THEN PriceCents(pc) ELSE 100 - PriceCents(pc)

Contracts(bet, ppc) == Max(1, bet \div (10000 * ppc))

(***************************************************************************)
(* Research coroutines: a scan's market task (_prepare_market, the awaited *)
(* screen / estimate, _finalize_market), the re-estimate sweep and the     *)
(* manual refresh.  Several run at once: the scan gathers its market tasks *)
(* and the other two are separate entry points.                            *)
(***************************************************************************)

\* bounds on the tables
MaxSnapshots == 2
MaxEstimates == 2
MaxRecs == 2
MaxTrades == 2

Flows == {"f1", "f2"}

Prices == {30, 70}

\* what the estimator may return: probability (percent) and confidence
EstimateOutputs == {[probability |-> 30, confidence |-> "high"],
                    [probability |-> 90, confidence |-> "medium"]}

re_estimate_trigger == 5           \* 0.05, in cents of price

FlowIdle == [pc |-> "idle", kind |-> "none", market |-> "none", snapshot |-> 0,
             price |-> 0, rec |-> 0, direction |-> "none", count |-> 0,
             ppc |-> 0, order |-> 0]

StartEstimate(f, kind, m, snap, pc) ==
    flow' = [flow EXCEPT ![f] = [FlowIdle EXCEPT !.pc = "estimating",
                 !.kind = kind, !.market = m, !.snapshot = snap, !.price = pc]]

\* _prepare_market up to the awaited screen: the venue lists the market as
\* open with a valid price; upsert, snapshot, no fresh estimate in the cache.
PrepareMarket(f, m) ==
    /\ flow[f].pc = "idle"
    /\ venue[m].result = "open"
    /\ Len(snapshots) < MaxSnapshots
    /\ markets' = upsert_market(markets, m)
    /\ snapshots' = insert_snapshot(snapshots, m, venue[m].price)
    /\ StartEstimate(f, "scan", m, Len(snapshots) + 1, venue[m].price)
    /\ UNCHANGED <<estimates, recs, trades, perf, perfResult, config>>
    /\ UNCHANGED <<scanVars, venueVars, sweep, respass, sync, blindVars,
                   pipeVars, schedVars, bookVars, parseVars, calcVars,
                   httpVars, bootVars, slotsVars>>

\* _prepare_market when _needs_research finds a recent estimate: the
\* snapshot is stored and the market is skipped.
PrepareMarketCached(f, m) ==
    /\ flow[f].pc = "idle"
    /\ venue[m].result = "open"
    /\ Len(snapshots) < MaxSnapshots
    /\ get_latest_estimate(estimates, m) # 0
    /\ markets' = upsert_market(markets, m)
    /\ snapshots' = insert_snapshot(snapshots, m, venue[m].price)
    /\ UNCHANGED <<estimates, recs, trades, perf, perfResult, config>>
    /\ UNCHANGED <<scanVars, venueVars, taskVars, blindVars, pipeVars,
                   schedVars, bookVars, parseVars, calcVars, httpVars,
                   bootVars, slotsVars>>

\* get_markets_with_price_movement for one market: active, and its two
\* latest snapshots differ by at least the trigger.
PriceMoved(m) ==
    LET new == get_latest_snapshot(snapshots, m)
        olds == {i \in DOMAIN snapshots : snapshots[i].market = m /\ i < new}
        old == IF olds = {} THEN 0 ELSE CHOOSE i \in olds : \A j \in olds : j <= i
        d == IF old = 0 THEN 0
             ELSE snapshots[new].price_yes - snapshots[old].price_yes
    IN  /\ markets[m].status = "active"
        /\ old # 0
        /\ (IF d >= 0 THEN d ELSE 0 - d) >= re_estimate_trigger

\* check_and_reestimate up to the awaited estimate of a moved market
ReestimateBegin(f, m) ==
    /\ flow[f].pc = "idle"
    /\ PriceMoved(m)
    /\ LET new == get_latest_snapshot(snapshots, m)
       IN  StartEstimate(f, "reestimate", m, new, snapshots[new].price_yes)
    /\ UNCHANGED <<storeVars, scanVars, venueVars, sweep, respass, sync,
                   blindVars, pipeVars, schedVars, bookVars, parseVars,
                   calcVars, httpVars, bootVars, slotsVars>>

\* refresh_market_estimate up to the awaited estimate: any existing market,
\* whatever its status; the latest snapshot may be missing.
RefreshBegin(f, m) ==
    /\ flow[f].pc = "idle"
    /\ markets[m].status # "none"
    /\ LET snap == get_latest_snapshot(snapshots, m)
       IN  StartEstimate(f, "refresh", m, snap,
                         IF snap = 0 THEN 0 ELSE snapshots[snap].price_yes)
    /\ UNCHANGED <<storeVars, scanVars, venueVars, sweep, respass, sync,
                   blindVars, pipeVars, schedVars, bookVars, parseVars,
                   calcVars, httpVars, bootVars, slotsVars>>

\* The screen said no, or the estimate raised: the coroutine ends.
EstimateFailed(f) ==
    /\ flow[f].pc = "estimating"
    /\ flow' = [flow EXCEPT ![f] = FlowIdle]
    /\ UNCHANGED <<storeVars, scanVars, venueVars, sweep, respass, sync,
                   blindVars, pipeVars, schedVars, bookVars, parseVars,
                   calcVars, httpVars, bootVars, slotsVars>>

\* Whether the estimate out at price pc yields a recommendation
Recommends(out, pc) ==
    /\ calculate_ev(out.probability, pc) # NoEv
    /\ should_recommend(calculate_ev(out.probability, pc).ev, "none", -1)

\* A recommendation row priced at what the venue quotes when it is written
RecRowAtVenuePrice(m, est, snap, pc, out) ==
    LET ev_result == calculate_ev(out.probability, pc)
    IN  [market |-> m, estimate |-> est, snapshot |-> snap,
         direction |-> ev_result.direction, market_price |-> venue[m].price,
         ai_probability |-> out.probability, edge |-> ev_result.edge,
         ev |-> ev_result.ev,
         kelly_fraction |-> calculate_kelly(ev_result.edge, pc,
                                ev_result.direction, out.confidence),
         status |-> "active"]

RecRow(m, est, snap, pc, out) ==
    LET ev_result == calculate_ev(out.probability, pc)
    IN  [market |-> m, estimate |-> est, snapshot |-> snap,
         direction |-> ev_result.direction, market_price |-> pc,
         ai_probability |-> out.probability, edge |-> ev_result.edge,
         ev |-> ev_result.ev,
         kelly_fraction |-> calculate_kelly(ev_result.edge, pc,
                                ev_result.direction, out.confidence),
         status |-> "active"]

\* insert_estimate, calculate_ev, should_recommend, then
\* expire_recommendations and insert_recommendation: one await-free stretch
\* shared by the three callers.
StoreEstimate(f, out, withRec) ==
    /\ Len(estimates) < MaxEstimates
    /\ estimates' = insert_estimate(estimates, flow[f].market,
                                    out.probability, out.confidence)
    /\ IF withRec
       THEN /\ Len(recs) < MaxRecs
            /\ recs' = insert_recommendation(
                          expire_recommendations(recs, flow[f].market),
                          RecRow(flow[f].market, Len(estimates) + 1,
                                 flow[f].snapshot, flow[f].price, out))
       ELSE recs' = recs

\* A gate that looks at the bet size only
AutoTradesUngated(row) ==
    BetAmount(row.kelly_fraction, config.bankroll) >= 1000000

\* The auto-trade gate of _finalize_market for a new recommendation row
AutoTrades(row) ==
    /\ config.auto_trade_enabled
    /\ row.ev >= auto_trade_min_ev
    /\ BetAmount(row.kelly_fraction, config.bankroll) >= 1000000

\* The coroutine state while place_order is awaited
Ordering(fl, rec, direction, pc, kelly, bankroll) ==
    LET ppc == PricePerContract(direction, pc)
    IN  [fl EXCEPT !.pc = "ordering", !.rec = rec, !.direction = direction,
                   !.ppc = ppc,
                   !.count = Contracts(BetAmount(kelly, bankroll), ppc)]

\* _finalize_market: the estimate arrived; estimate and recommendation are
\* stored; with auto-trade on, the order is sent and awaited.
FinalizeMarket(f, out) ==
    /\ flow[f].pc = "estimating"
    /\ flow[f].kind = "scan"
    /\ LET withRec == Recommends(out, flow[f].price)
           row == RecRow(flow[f].market, Len(estimates) + 1, flow[f].snapshot,
                         flow[f].price, out)
       IN  /\ StoreEstimate(f, out, withRec)
           /\ flow' = [flow EXCEPT ![f] =
                  IF withRec /\ AutoTrades(row)
                  THEN Ordering(flow[f], Len(recs) + 1, row.direction,
                                flow[f].price, row.kelly_fraction,
                                config.bankroll)
                  ELSE FlowIdle]
    /\ UNCHANGED <<markets, snapshots, trades, perf, perfResult, config>>
    /\ UNCHANGED <<scanVars, venueVars, sweep, respass, sync, blindVars,
                   pipeVars, schedVars, bookVars, parseVars, calcVars,
                   httpVars, bootVars, slotsVars>>

\* check_and_reestimate after the estimate of a moved market
ReestimateFinalize(f, out) ==
    /\ flow[f].pc = "estimating"
    /\ flow[f].kind = "reestimate"
    /\ StoreEstimate(f, out, Recommends(out, flow[f].price))
    /\ flow' = [flow EXCEPT ![f] = FlowIdle]
    /\ UNCHANGED <<markets, snapshots, trades, perf, perfResult, config>>
    /\ UNCHANGED <<scanVars, venueVars, sweep, respass, sync, blindVars,
                   pipeVars, schedVars, bookVars, parseVars, calcVars,
                   httpVars, bootVars, slotsVars>>

\* refresh_market_estimate after the estimate: a recommendation only when
\* the market had a snapshot
RefreshFinalize(f, out) ==
    /\ flow[f].pc = "estimating"
    /\ flow[f].kind = "refresh"
    /\ StoreEstimate(f, out,
                     flow[f].snapshot # 0 /\ Recommends(out, flow[f].price))
    /\ flow' = [flow EXCEPT ![f] = FlowIdle]
    /\ UNCHANGED <<markets, snapshots, trades, perf, perfResult, config>>
    /\ UNCHANGED <<scanVars, venueVars, sweep, respass, sync, blindVars,
                   pipeVars, schedVars, bookVars, parseVars, calcVars,
                   httpVars, bootVars, slotsVars>>

\* The exchange accepts an order that a coroutine is awaiting: only while
\* the market is open there.
AcceptOrder(tasks, k) ==
    /\ tasks[k].pc = "ordering"
    /\ tasks[k].order = 0
    /\ venue[tasks[k].market].result = "open"
    /\ orders' = Append(orders, [market |-> tasks[k].market,
                                  side |-> tasks[k].direction,
                                  count |-> tasks[k].count,
                                  ppc |-> tasks[k].ppc,
                                  status |-> "resting"])

FlowOrderAccepted(f) ==
    /\ AcceptOrder(flow, f)
    /\ flow' = [flow EXCEPT ![f].order = Len(orders) + 1]
    /\ UNCHANGED <<storeVars, scanVars, venue, sweep, respass, sync, fills,
                   blindVars, pipeVars, schedVars, bookVars, parseVars,
                   calcVars, httpVars, bootVars, slotsVars>>

\* place_order returned in _finalize_market: the trade is recorded under
\* the id 'order_<id>' and linked to the new recommendation.
FlowOrderReturn(f) ==
    /\ flow[f].pc = "ordering"
    /\ flow[f].order # 0
    /\ Len(trades) < MaxTrades
    /\ trades' = insert_trade(trades, flow[f].market, flow[f].direction,
                     flow[f].ppc, flow[f].count * flow[f].ppc, flow[f].count,
                     flow[f].rec, [kind |-> "order", id |-> flow[f].order],
                     "scan")
    /\ flow' = [flow EXCEPT ![f] = FlowIdle]
    /\ UNCHANGED <<markets, snapshots, estimates, recs, perf, perfResult,
                   config>>
    /\ UNCHANGED <<scanVars, venueVars, sweep, respass, sync, blindVars,
                   pipeVars, schedVars, bookVars, parseVars, calcVars,
                   httpVars, bootVars, slotsVars>>

\* place_order raised (rejected, timed out): caught, no trade is recorded.
FlowOrderRaise(f) ==
    /\ flow[f].pc = "ordering"
    /\ flow[f].order = 0
    /\ flow' = [flow EXCEPT ![f] = FlowIdle]
    /\ UNCHANGED <<storeVars, scanVars, venueVars, sweep, respass, sync,
                   blindVars, pipeVars, schedVars, bookVars, parseVars,
                   calcVars, httpVars, bootVars, slotsVars>>

\* The exchange accepted the order and the rest of the try block raised (the
\* response was lost or unreadable, or insert_trade failed): the handler of
\* _finalize_market logs it and no trade is recorded.
FlowOrderLost(f) ==
    /\ flow[f].pc = "ordering"
    /\ flow[f].order # 0
    /\ flow' = [flow EXCEPT ![f] = FlowIdle]
    /\ UNCHANGED <<storeVars, scanVars, venueVars, sweep, respass, sync,
                   blindVars, pipeVars, schedVars, bookVars, parseVars,
                   calcVars, httpVars, bootVars, slotsVars>>

(***************************************************************************)
(* _sweep_untraded_recs: the post-scan sweep.  The untraded list is read   *)
(* once; each recommendation is re-verified and its order awaited.         *)
(***************************************************************************)

Sweepers == {"s1", "s2"}

SweepIdle == [pc |-> "idle", todo |-> {}, market |-> "none", rec |-> 0,
              direction |-> "none", count |-> 0, ppc |-> 0, order |-> 0,
              bankroll |-> 0]

\* execute_scan reaches the sweep with auto-trade enabled in its db_config
SweepBegin(w) ==
    /\ sweep[w].pc = "idle"
    /\ config.auto_trade_enabled
    /\ get_untraded_active_recommendations(recs, trades) # {}
    /\ sweep' = [sweep EXCEPT ![w] = [SweepIdle EXCEPT !.pc = "loop",
                     !.todo = get_untraded_active_recommendations(recs, trades),
                     !.bankroll = config.bankroll]]
    /\ UNCHANGED <<storeVars, scanVars, venueVars, flow, respass, sync,
                   blindVars, pipeVars, schedVars, bookVars, parseVars,
                   calcVars, httpVars, bootVars, slotsVars>>

\* The list is ordered by ev, highest first
NextInSweep(w, r) ==
    /\ sweep[w].pc = "loop"
    /\ r \in sweep[w].todo
    /\ \A q \in sweep[w].todo : recs[q].ev <= recs[r].ev

\* ev of recommendation r at the latest snapshot price of its market
SweepEv(r) ==
    LET snap == get_latest_snapshot(snapshots, recs[r].market)
    IN  IF snap = 0 THEN NoEv
        ELSE calculate_ev(recs[r].ai_probability, snapshots[snap].price_yes)

SweepKelly(r) ==
    LET snap == get_latest_snapshot(snapshots, recs[r].market)
    IN  calculate_kelly(SweepEv(r).edge, snapshots[snap].price_yes,
                        SweepEv(r).direction, "medium")

\* The checks of one loop iteration before the order is sent
SweepTrades(w, r) ==
    /\ markets[recs[r].market].status = "active"
    /\ get_latest_snapshot(snapshots, recs[r].market) # 0
    /\ SweepEv(r) # NoEv
    /\ SweepEv(r).ev >= auto_trade_min_ev
    /\ BetAmount(SweepKelly(r), sweep[w].bankroll) >= 1000000

AfterSweepItem(sw, r) ==
    IF sw.todo \ {r} = {} THEN SweepIdle
    ELSE [SweepIdle EXCEPT !.pc = "loop", !.todo = sw.todo \ {r},
                           !.bankroll = sw.bankroll]

\* An iteration that hits a continue
SweepSkip(w, r) ==
    /\ NextInSweep(w, r)
    /\ ~SweepTrades(w, r)
    /\ sweep' = [sweep EXCEPT ![w] = AfterSweepItem(sweep[w], r)]
    /\ UNCHANGED <<storeVars, scanVars, venueVars, flow, respass, sync,
                   blindVars, pipeVars, schedVars, bookVars, parseVars,
                   calcVars, httpVars, bootVars, slotsVars>>

\* An iteration that sends the order and awaits it
SweepOrder(w, r) ==
    /\ NextInSweep(w, r)
    /\ SweepTrades(w, r)
    /\ LET snap == get_latest_snapshot(snapshots, recs[r].market)
           ppc == PricePerContract(SweepEv(r).direction,
                                   snapshots[snap].price_yes)
       IN  sweep' = [sweep EXCEPT ![w] = [sweep[w] EXCEPT !.pc = "ordering",
                 !.market = recs[r].market, !.rec = r,
                 !.direction = SweepEv(r).direction, !.ppc = ppc,
                 !.count = Contracts(BetAmount(SweepKelly(r),
                                               sweep[w].bankroll), ppc)]]
    /\ UNCHANGED <<storeVars, scanVars, venueVars, flow, respass, sync,
                   blindVars, pipeVars, schedVars, bookVars, parseVars,
                   calcVars, httpVars, bootVars, slotsVars>>

SweepOrderAccepted(w) ==
    /\ AcceptOrder(sweep, w)
    /\ sweep' = [sweep EXCEPT ![w].order = Len(orders) + 1]
    /\ UNCHANGED <<storeVars, scanVars, venue, flow, respass, sync, fills,
                   blindVars, pipeVars, schedVars, bookVars, parseVars,
                   calcVars, httpVars, bootVars, slotsVars>>

\* place_order returned in the sweep: the trade is recorded for the
\* recommendation taken from the list.
SweepOrderReturn(w) ==
    /\ sweep[w].pc = "ordering"
    /\ sweep[w].order # 0
    /\ Len(trades) < MaxTrades
    /\ trades' = insert_trade(trades, sweep[w].market, sweep[w].direction,
                     sweep[w].ppc, sweep[w].count * sweep[w].ppc,
                     sweep[w].count, sweep[w].rec,
                     [kind |-> "order", id |-> sweep[w].order], "sweep")
    /\ sweep' = [sweep EXCEPT ![w] = AfterSweepItem(sweep[w], sweep[w].rec)]
    /\ UNCHANGED <<markets, snapshots, estimates, recs, perf, perfResult,
                   config>>
    /\ UNCHANGED <<scanVars, venueVars, flow, respass, sync, blindVars,
                   pipeVars, schedVars, bookVars, parseVars, calcVars,
                   httpVars, bootVars, slotsVars>>

SweepOrderRaise(w) ==
    /\ sweep[w].pc = "ordering"
    /\ sweep[w].order = 0
    /\ sweep' = [sweep EXCEPT ![w] = AfterSweepItem(sweep[w], sweep[w].rec)]
    /\ UNCHANGED <<storeVars, scanVars, venueVars, flow, respass, sync,
                   blindVars, pipeVars, schedVars, bookVars, parseVars,
                   calcVars, httpVars, bootVars, slotsVars>>

\* The same in the sweep: the handler of the loop body logs it and the loop
\* goes on, no trade is recorded.
SweepOrderLost(w) ==
    /\ sweep[w].pc = "ordering"
    /\ sweep[w].order # 0
    /\ sweep' = [sweep EXCEPT ![w] = AfterSweepItem(sweep[w], sweep[w].rec)]
    /\ UNCHANGED <<storeVars, scanVars, venueVars, flow, respass, sync,
                   blindVars, pipeVars, schedVars, bookVars, parseVars,
                   calcVars, httpVars, bootVars, slotsVars>>

(***************************************************************************)
(* Resolution: check_resolutions (scheduler job and POST                   *)
(* /resolutions/check), resolve_market_trades and the manual resolve       *)
(* endpoint.                                                               *)
(***************************************************************************)

ResPasses == {"r1", "r2"}

ResIdle == [pc |-> "idle", targets |-> {},
            results |-> [m \in Markets |-> "unchecked"]]

\* The tables a resolution writes, as one record
Store == [markets |-> markets, recs |-> recs, trades |-> trades,
          perf |-> perf, perfResult |-> perfResult]

\* update_market_status(resolved, outcome), resolve_market_trades,
\* resolve_recommendations
ResolveMarket(st, m, outcome) ==
    LET row == PerfRow(m, outcome)
    IN  [markets |-> update_market_status(st.markets, m, "resolved", outcome),
         trades |-> ResolveTrades(st.trades, m, outcome),
         perf |-> IF HasEstimateAndSnapshot(m)
                  THEN insert_performance(st.perf, row) ELSE st.perf,
         perfResult |-> IF HasEstimateAndSnapshot(m)
                        THEN insert_performance_result(st.perf, row)
                        ELSE st.perfResult,
         recs |-> resolve_recommendations(st.recs, m)]

\* update_market_status(closed), expire_recommendations,
\* cancel_trades_for_market
CancelMarket(st, m) ==
    [st EXCEPT !.markets = update_market_status(st.markets, m, "closed", "none"),
               !.recs = expire_recommendations(st.recs, m),
               !.trades = cancel_trades_for_market(st.trades, m)]

RECURSIVE ApplyResults(_, _, _)
\* The loop over results.items() of check_resolutions
ApplyResults(st, todo, results) ==
    IF todo = {} THEN st
    ELSE LET m == CHOOSE x \in todo : TRUE
             next == CASE results[m] = "void" -> CancelMarket(st, m)
                       [] results[m] \in {"yes", "no"} ->
                              ResolveMarket(st, m, results[m])
                       [] OTHER -> st
         IN  ApplyResults(next, todo \ {m}, results)

SetStore(st) ==
    /\ markets' = st.markets
    /\ recs' = st.recs
    /\ trades' = st.trades
    /\ perf' = st.perf
    /\ perfResult' = st.perfResult

\* check_resolutions up to the awaited batch: the active markets are listed
ResBegin(r) ==
    /\ respass[r].pc = "idle"
    /\ {m \in Markets : markets[m].status = "active"} # {}
    /\ respass' = [respass EXCEPT ![r] = [ResIdle EXCEPT !.pc = "checking",
           !.targets = {m \in Markets : markets[m].status = "active"}]]
    /\ UNCHANGED <<storeVars, scanVars, venueVars, flow, sweep, sync,
                   blindVars, pipeVars, schedVars, bookVars, parseVars,
                   calcVars, httpVars, bootVars, slotsVars>>

\* check_resolution of one market: the exchange's answer at that moment
ResFetch(r, m) ==
    /\ respass[r].pc = "checking"
    /\ m \in respass[r].targets
    /\ respass[r].results[m] = "unchecked"
    /\ respass' = [respass EXCEPT ![r].results[m] = venue[m].result]
    /\ UNCHANGED <<storeVars, scanVars, venueVars, flow, sweep, sync,
                   blindVars, pipeVars, schedVars, bookVars, parseVars,
                   calcVars, httpVars, bootVars, slotsVars>>

\* check_resolution returned None (HTTP error): the market is left out
ResFetchError(r, m) ==
    /\ respass[r].pc = "checking"
    /\ m \in respass[r].targets
    /\ respass[r].results[m] = "unchecked"
    /\ respass' = [respass EXCEPT ![r].results[m] = "error"]
    /\ UNCHANGED <<storeVars, scanVars, venueVars, flow, sweep, sync,
                   blindVars, pipeVars, schedVars, bookVars, parseVars,
                   calcVars, httpVars, bootVars, slotsVars>>

\* The batch returned: every result is applied in one await-free loop
ResApply(r) ==
    /\ respass[r].pc = "checking"
    /\ \A m \in respass[r].targets : respass[r].results[m] # "unchecked"
    /\ SetStore(ApplyResults(Store, respass[r].targets, respass[r].results))
    /\ respass' = [respass EXCEPT ![r] = ResIdle]
    /\ UNCHANGED <<snapshots, estimates, config>>
    /\ UNCHANGED <<scanVars, venueVars, flow, sweep, sync, blindVars,
                   pipeVars, schedVars, bookVars, parseVars, calcVars,
                   httpVars, bootVars, slotsVars>>

\* The calls made for a resolved market after update_market_status, in order
ResolveStages == {"close_trades_for_market", "insert_performance",
                  "resolve_recommendations"}

\* What the store holds when the named call raised for market m: the market
\* is marked resolved and the calls before the named one have run.
ResolveMarketUpTo(st, m, outcome, stage) ==
    LET full == ResolveMarket(st, m, outcome)
    IN  [markets |-> full.markets,
         trades |-> IF stage = "close_trades_for_market" THEN st.trades
                    ELSE full.trades,
         perf |-> IF stage = "resolve_recommendations" THEN full.perf
                  ELSE st.perf,
         perfResult |-> IF stage = "resolve_recommendations"
                        THEN full.perfResult ELSE st.perfResult,
         recs |-> st.recs]

\* The batch returned and the loop raised while it handled market m, after
\* update_market_status: the markets handled before m are done, the ones
\* after m are skipped, and the handler around the platform loop logs.
ResApplyRaise(r, m, stage) ==
    /\ respass[r].pc = "checking"
    /\ \A x \in respass[r].targets : respass[r].results[x] # "unchecked"
    /\ m \in respass[r].targets
    /\ respass[r].results[m] \in {"yes", "no"}
    /\ \E before \in SUBSET (respass[r].targets \ {m}) :
          SetStore(ResolveMarketUpTo(
                       ApplyResults(Store, before, respass[r].results),
                       m, respass[r].results[m], stage))
    /\ respass' = [respass EXCEPT ![r].pc = "raised"]
    /\ UNCHANGED <<snapshots, estimates, config>>
    /\ UNCHANGED <<scanVars, venueVars, flow, sweep, sync, blindVars,
                   pipeVars, schedVars, bookVars, parseVars, calcVars,
                   httpVars, bootVars, slotsVars>>

\* check_resolutions returns its summary after the handler
ResRaisedReturn(r) ==
    /\ respass[r].pc = "raised"
    /\ respass' = [respass EXCEPT ![r] = ResIdle]
    /\ UNCHANGED <<storeVars, scanVars, venueVars, flow, sweep, sync,
                   blindVars, pipeVars, schedVars, bookVars, parseVars,
                   calcVars, httpVars, bootVars, slotsVars>>

\* POST /markets/{id}/resolve: refused only for a missing or an already
\* resolved market
manually_resolve_market(m, outcome) ==
    /\ markets[m].status \notin {"none", "resolved"}
    /\ SetStore(ResolveMarket(Store, m, outcome))
    /\ UNCHANGED <<snapshots, estimates, config>>
    /\ UNCHANGED <<scanVars, venueVars, taskVars, blindVars, pipeVars,
                   schedVars, bookVars, parseVars, calcVars, httpVars,
                   bootVars, slotsVars>>

(***************************************************************************)
(* The exchange.                                                           *)
(***************************************************************************)

VenueFinalize(m, result) ==
    /\ venue[m].result = "open"
    /\ venue' = [venue EXCEPT ![m].result = result]
    /\ UNCHANGED <<storeVars, scanVars, orders, taskVars, fills, blindVars,
                   pipeVars, schedVars, bookVars, parseVars, calcVars,
                   httpVars, bootVars, slotsVars>>

VenuePriceMove(m, pc) ==
    /\ venue[m].result = "open"
    /\ venue[m].price # pc
    /\ venue' = [venue EXCEPT ![m].price = pc]
    /\ UNCHANGED <<storeVars, scanVars, orders, taskVars, fills, blindVars,
                   pipeVars, schedVars, bookVars, parseVars, calcVars,
                   httpVars, bootVars, slotsVars>>

\* The exchange executes a resting order in one fill and charges its fee
\* (0.07 * contracts * price * (1 - price), rounded up to a cent).
VenueFill(o) ==
    /\ orders[o].status = "resting"
    /\ venue[orders[o].market].result = "open"
    /\ orders' = [orders EXCEPT ![o].status = "filled"]
    /\ fills' = Append(fills,
          [order |-> o, market |-> orders[o].market, side |-> orders[o].side,
           count |-> orders[o].count, price |-> orders[o].ppc,
           fee_cost |-> (7 * orders[o].count * orders[o].ppc
                           * (100 - orders[o].ppc) + 9999) \div 10000])
    /\ UNCHANGED <<storeVars, scanVars, venue, taskVars, blindVars, pipeVars,
                   schedVars, bookVars, parseVars, calcVars, httpVars,
                   bootVars, slotsVars>>

\* The exchange cancels a resting order
VenueCancelOrder(o) ==
    /\ orders[o].status = "resting"
    /\ orders' = [orders EXCEPT ![o].status = "canceled"]
    /\ UNCHANGED <<storeVars, scanVars, venue, fills, taskVars, blindVars,
                   pipeVars, schedVars, bookVars, parseVars, calcVars,
                   httpVars, bootVars, slotsVars>>

(***************************************************************************)
(* services/trade_syncer.py: sync_kalshi_trades and                        *)
(* _reconcile_kalshi_orders.                                               *)
(***************************************************************************)

Syncers == {"y1"}

SyncIdle == [pc |-> "idle", log |-> "none", open_orders |-> {}]

FillId(k) == [kind |-> "fill", id |-> k]

OrderId(o) == [kind |-> "order", id |-> o]

_get_existing_synced_trade_ids(ts) ==
    {ts[t].platform_trade_id : t \in {u \in DOMAIN ts :
                                       ts[u].platform_trade_id.kind # "none"}}

\* The most recent open trade of the market and direction whose id starts
\* with order_, 0 when there is none
find_order_trade_for_fill(ts, m, direction) ==
    LET c == {t \in DOMAIN ts : /\ ts[t].market = m
                                /\ ts[t].direction = direction
                                /\ ts[t].status = "open"
                                /\ ts[t].platform_trade_id.kind = "order"}
    IN  IF c = {} THEN 0 ELSE CHOOSE t \in c : \A u \in c : u <= t

\* One iteration of the loop over fills in sync_kalshi_trades
SyncOneFill(ts, k) ==
    LET f == fills[k]
        t == find_order_trade_for_fill(ts, f.market, f.side)
    IN  IF FillId(k) \in _get_existing_synced_trade_ids(ts) THEN ts
        ELSE IF markets[f.market].status = "none" THEN ts
        ELSE IF t # 0
        THEN [ts EXCEPT ![t].platform_trade_id = FillId(k),
                        ![t].entry_price = f.price,
                        ![t].amount = f.count * f.price,
                        ![t].shares = f.count,
                        ![t].fees_paid = f.fee_cost]
        ELSE [insert_trade(ts, f.market, f.side, f.price, f.count * f.price,
                           f.count, get_recommendation_for_market(recs, f.market),
                           FillId(k), "sync")
                 EXCEPT ![Len(ts) + 1].fees_paid = f.fee_cost]

RECURSIVE SyncLoop(_, _)
\* The loop over the fetched fills, in the order the exchange lists them
SyncLoop(ts, k) ==
    IF k > Len(fills) THEN ts ELSE SyncLoop(SyncOneFill(ts, k), k + 1)

OpenOrderTrades(ts) ==
    {t \in DOMAIN ts : ts[t].status = "open" /\ ts[t].platform_trade_id.kind = "order"}

\* sync_kalshi_trades up to the awaited fetch_fills
SyncBegin(y) ==
    /\ sync[y].pc = "idle"
    /\ sync' = [sync EXCEPT ![y] = [SyncIdle EXCEPT !.pc = "fetching",
                                                     !.log = "running"]]
    /\ UNCHANGED <<storeVars, scanVars, venueVars, flow, sweep, respass,
                   blindVars, pipeVars, schedVars, bookVars, parseVars,
                   calcVars, httpVars, bootVars, slotsVars>>

\* fetch_fills returned: existing ids are read and the loop runs; then
\* _reconcile_kalshi_orders lists the open order trades and, if there are
\* any, awaits fetch_orders.
SyncFills(y) ==
    /\ sync[y].pc = "fetching"
    /\ Len(SyncLoop(trades, 1)) <= MaxTrades
    /\ trades' = SyncLoop(trades, 1)
    /\ sync' = [sync EXCEPT ![y] =
          IF OpenOrderTrades(trades') = {}
          THEN [SyncIdle EXCEPT !.log = "completed"]
          ELSE [pc |-> "reconciling", log |-> "running",
                open_orders |-> {[id |-> t, ptid |-> trades'[t].platform_trade_id] :
                                    t \in OpenOrderTrades(trades')}]]
    /\ UNCHANGED <<markets, snapshots, estimates, recs, perf, perfResult,
                   config>>
    /\ UNCHANGED <<scanVars, venueVars, flow, sweep, respass, blindVars,
                   pipeVars, schedVars, bookVars, parseVars, calcVars,
                   httpVars, bootVars, slotsVars>>

\* fetch_fills or fetch_orders raised: the sync log entry is marked failed
SyncRaise(y) ==
    /\ sync[y].pc \in {"fetching", "reconciling"}
    /\ sync' = [sync EXCEPT ![y] = [SyncIdle EXCEPT !.log = "failed"]]
    /\ UNCHANGED <<storeVars, scanVars, venueVars, flow, sweep, respass,
                   blindVars, pipeVars, schedVars, bookVars, parseVars,
                   calcVars, httpVars, bootVars, slotsVars>>

\* fetch_orders(status=canceled) returned: each listed trade whose order id
\* is among the cancelled orders is marked cancelled with pnl 0
SyncReconcile(y) ==
    /\ sync[y].pc = "reconciling"
    /\ trades' = [t \in DOMAIN trades |->
          IF \E e \in sync[y].open_orders :
                 e.id = t /\ orders[e.ptid.id].status = "canceled"
          THEN [trades[t] EXCEPT !.status = "cancelled", !.pnl_set = TRUE,
                                 !.pnl = 0, !.closed_at = TRUE]
          ELSE trades[t]]
    /\ sync' = [sync EXCEPT ![y] = [SyncIdle EXCEPT !.log = "completed"]]
    /\ UNCHANGED <<markets, snapshots, estimates, recs, perf, perfResult,
                   config>>
    /\ UNCHANGED <<scanVars, venueVars, flow, sweep, respass, blindVars,
                   pipeVars, schedVars, bookVars, parseVars, calcVars,
                   httpVars, bootVars, slotsVars>>

(***************************************************************************)
(* Blind estimation: BlindMarketInput as each call path builds it, and     *)
(* services/researcher.py: _select_model, _get_prompts,                    *)
(* _build_blind_prompt, screen.  A text is the sequence of its template    *)
(* and the values formatted into it; "" stands for None or an empty string.*)
(***************************************************************************)

high_value_volume_threshold == 100000

\* Market data: the non-price fields
Questions == {"q1", "q2"}
Criteria == {"", "rules"}
CloseDates == {"", "2026-01-01"}
Categories == {"", "sports"}
SportTypes == {"", "nba"}
Feedbacks == {"", "brier 0.21"}

\* Market data: the price fields
Volumes == {0, 200000}
Liquidities == {0, 10}

MarketData ==
    [question : Questions, resolution_criteria : Criteria,
     close_date : CloseDates, category : Categories, sport_type : SportTypes,
     calibration_feedback : Feedbacks, price_yes : Prices, price_no : Prices,
     volume : Volumes, liquidity : Liquidities]

Or(value, default) == IF value = "" THEN default ELSE value

\* An input whose question also carries the price
BlindInputWithPrice(md) ==
    [question |-> <<md.question, md.price_yes>>,
     resolution_criteria |-> md.resolution_criteria,
     close_date |-> md.close_date, category |-> md.category,
     sport_type |-> md.sport_type,
     calibration_feedback |-> md.calibration_feedback]

\* BlindMarketInput as _prepare_market builds it
BlindInputScan(md) ==
    [question |-> md.question, resolution_criteria |-> md.resolution_criteria,
     close_date |-> md.close_date, category |-> md.category,
     sport_type |-> md.sport_type,
     calibration_feedback |-> md.calibration_feedback]

\* BlindMarketInput as check_and_reestimate and refresh_market_estimate
\* build it from the market row: sport_type and feedback keep their default
BlindInputRow(md) ==
    [question |-> md.question, resolution_criteria |-> md.resolution_criteria,
     close_date |-> md.close_date, category |-> md.category,
     sport_type |-> "", calibration_feedback |-> ""]

_select_model(volume, manual, use_premium) ==
    IF manual \/ use_premium THEN "high_value_model"
    ELSE IF volume >= high_value_volume_threshold THEN "high_value_model"
    ELSE "default_model"

\* _get_prompts: the system prompt chosen by category
SystemPrompt(blind_input) ==
    IF blind_input.category = "sports" THEN "_SYSTEM_PROMPT_SPORTS"
    ELSE "_SYSTEM_PROMPT"

_build_blind_prompt(blind_input) ==
    IF blind_input.category = "sports"
    THEN <<"_RESEARCH_TEMPLATE_SPORTS", blind_input.question,
           Or(blind_input.resolution_criteria, "Not specified"),
           Or(blind_input.close_date, "Not specified"),
           Or(blind_input.sport_type, "Unknown"),
           IF blind_input.calibration_feedback # ""
           THEN <<"YOUR HISTORICAL PERFORMANCE", blind_input.calibration_feedback>>
           ELSE <<>> >>
    ELSE <<"_RESEARCH_TEMPLATE", blind_input.question,
           Or(blind_input.resolution_criteria, "Not specified"),
           Or(blind_input.close_date, "Not specified"),
           Or(blind_input.category, "General")>>

\* The request of Researcher.screen
ScreenRequest(blind_input) ==
    [input |-> blind_input, model |-> "haiku", system |-> "",
     prompt |-> <<"screen", blind_input.question,
                  Or(blind_input.close_date, "Unknown"),
                  Or(blind_input.sport_type, "Unknown")>>]

\* The request of Researcher.estimate and of one item of estimate_batch
EstimateRequest(blind_input, volume, manual, use_premium) ==
    [input |-> blind_input,
     model |-> _select_model(volume, manual, use_premium),
     system |-> SystemPrompt(blind_input),
     prompt |-> _build_blind_prompt(blind_input)]

CallPaths == {"scan_screen", "sync_estimate", "batch_estimate",
              "re_estimate", "refresh"}

\* estimate_batch: one model for the whole batch, selected from the largest
\* volume in volume_map; the prompts are built per item
BatchRequest(blind_input, volumes, use_premium) ==
    [input |-> blind_input,
     model |-> _select_model(Max(volumes[1], volumes[2]), FALSE, use_premium),
     system |-> SystemPrompt(blind_input),
     prompt |-> _build_blind_prompt(blind_input)]

\* The request a call path builds for market data md; volumes are those of
\* the markets prepared in the same scan
RequestOn(path, md, volumes, use_premium) ==
    CASE path = "scan_screen" -> ScreenRequest(BlindInputScan(md))
      [] path = "sync_estimate" ->
            EstimateRequest(BlindInputScan(md), md.volume, FALSE, use_premium)
      [] path = "batch_estimate" ->
            BatchRequest(BlindInputScan(md), volumes, use_premium)
      [] path = "re_estimate" ->
            EstimateRequest(BlindInputRow(md), md.volume, FALSE, FALSE)
      [] path = "refresh" ->
            EstimateRequest(BlindInputRow(md), 0, TRUE, FALSE)

NoneSent == [path |-> "none", use_premium |-> FALSE, requests |-> <<>>]

\* Both markets go down one call path
BuildRequests(path, use_premium) ==
    /\ sent' = [path |-> path, use_premium |-> use_premium,
                requests |->
                    LET volumes == <<mdata[1].volume, mdata[2].volume>>
                    IN  <<RequestOn(path, mdata[1], volumes, use_premium),
                          RequestOn(path, mdata[2], volumes, use_premium)>>]
    /\ UNCHANGED <<mdata, storeVars, scanVars, venueVars, taskVars, pipeVars,
                   schedVars, bookVars, parseVars, calcVars, httpVars,
                   bootVars, slotsVars>>

(***************************************************************************)
(* One scan's pipeline over the markets it fetched: services/scanner.py    *)
(* execute_scan in sync mode (_process_market tasks under gather) and in   *)
(* batch mode (_execute_batch_pipeline).  An item records what happened to *)
(* one fetched market and how many Estimate rows the scan inserted for it. *)
(***************************************************************************)

\* bound: how many markets a scan fetches
MaxItems == 3

ScanItems == 1..MaxItems

\* st: none (not fetched), fetched, estimating (sync: prepared, estimate
\* awaited), prepared (batch), skipped, prepare_failed, missing (no batch
\* result for the item), failed (estimate or finalize raised), researched,
\* recommended
NoItem == [st |-> "none", rows |-> 0]

PipeIdle ==
    [pc |-> "idle", mode |-> "sync", item |-> [i \in ScanItems |-> NoItem],
     batch |-> "none", results |-> {}, summary_failed |-> FALSE]

ItemsIn(pp, states) == {i \in ScanItems : pp.item[i].st \in states}

\* An exception escaped to the platform handler instead of being caught at
\* the market: the rest of the platform's markets is not processed
MarketRaisedAborts(pp, i, rows) ==
    [pp EXCEPT !.item[i].st = "failed", !.item[i].rows = @ + rows,
               !.pc = "raised"]

\* The except clauses around one market's estimate and finalize
\* (_process_market, the sync fallback and the batch finalize loop): the
\* exception is logged and the pipeline goes on
MarketRaised(pp, i, rows) ==
    [pp EXCEPT !.item[i].st = "failed", !.item[i].rows = @ + rows]

\* _finalize_market returned: insert_estimate wrote one row
MarketFinalized(pp, i, result) ==
    [pp EXCEPT !.item[i].st = result, !.item[i].rows = @ + 1]

\* Outcomes of estimate + _finalize_market for one market.  The estimate may
\* raise (no row), _finalize_market may raise before or after insert_estimate
EstimateAndFinalize(pp, i) ==
    {MarketFinalized(pp, i, "researched"), MarketFinalized(pp, i, "recommended"),
     MarketRaised(pp, i, 0), MarketRaised(pp, i, 1)}

\* execute_scan up to the await on fetch_markets
PipeStart(mode) ==
    /\ pipe.pc = "idle"
    /\ pipe' = [pipe EXCEPT !.pc = "fetching", !.mode = mode]
    /\ progress' = start_scan(progress)
    /\ UNCHANGED <<scanPc, scanStarts, storeVars, venueVars, taskVars,
                   blindVars, schedVars, bookVars, parseVars, calcVars,
                   httpVars, bootVars, slotsVars>>

\* fetch_markets returned n markets: set_markets_found, the tasks are created
PipeFetchDone(n) ==
    /\ pipe.pc = "fetching"
    /\ pipe' = [pipe EXCEPT
                  !.pc = "processing",
                  !.item = [i \in ScanItems |->
                              IF i <= n THEN [st |-> "fetched", rows |-> 0]
                              ELSE NoItem]]
    /\ progress' = set_markets_found(progress)
    /\ UNCHANGED <<scanPc, scanStarts, storeVars, venueVars, taskVars,
                   blindVars, schedVars, bookVars, parseVars, calcVars,
                   httpVars, bootVars, slotsVars>>

\* fetch_markets raised: caught by the per-platform handler
PipeFetchRaise ==
    /\ pipe.pc = "fetching"
    /\ pipe' = [pipe EXCEPT !.pc = "raised"]
    /\ UNCHANGED <<scanVars, storeVars, venueVars, taskVars, blindVars,
                   schedVars, bookVars, parseVars, calcVars, httpVars,
                   bootVars, slotsVars>>

\* _prepare_market for one market: prepared, skipped (invalid price, recent
\* estimate, screened out) or raised, which _prepare_market itself catches
PipePrepare(i, out) ==
    /\ pipe.pc = "processing"
    /\ pipe.item[i].st = "fetched"
    /\ pipe' = [pipe EXCEPT !.item[i].st =
                  IF out = "prepared"
                  THEN (IF pipe.mode = "sync" THEN "estimating" ELSE "prepared")
                  ELSE out]
    /\ UNCHANGED <<scanVars, storeVars, venueVars, taskVars, blindVars,
                   schedVars, bookVars, parseVars, calcVars, httpVars,
                   bootVars, slotsVars>>

\* _process_market after the estimate await (sync mode)
PipeEstimate(i) ==
    /\ pipe.pc = "processing"
    /\ pipe.mode = "sync"
    /\ pipe.item[i].st = "estimating"
    /\ pipe' \in EstimateAndFinalize(pipe, i)
    /\ UNCHANGED <<scanVars, storeVars, venueVars, taskVars, blindVars,
                   schedVars, bookVars, parseVars, calcVars, httpVars,
                   bootVars, slotsVars>>

\* _execute_batch_pipeline, phase 1 done with at least one prepared market:
\* the batch is submitted and polled
PipeBatchSubmit ==
    /\ pipe.pc = "processing"
    /\ pipe.mode = "batch"
    /\ ItemsIn(pipe, {"fetched"}) = {}
    /\ ItemsIn(pipe, {"prepared"}) # {}
    /\ pipe' = [pipe EXCEPT !.pc = "batch"]
    /\ UNCHANGED <<scanVars, storeVars, venueVars, taskVars, blindVars,
                   schedVars, bookVars, parseVars, calcVars, httpVars,
                   bootVars, slotsVars>>

\* estimate_batch returned results for the items in ok (the others errored
\* or did not parse): phase 3 finalizes in order
PipeBatchReturn(ok) ==
    /\ pipe.pc = "batch"
    /\ ok # {}
    /\ ok \subseteq ItemsIn(pipe, {"prepared"})
    /\ pipe' = [pipe EXCEPT !.pc = "finalizing", !.batch = "ok", !.results = ok]
    /\ UNCHANGED <<scanVars, storeVars, venueVars, taskVars, blindVars,
                   schedVars, bookVars, parseVars, calcVars, httpVars,
                   bootVars, slotsVars>>

\* estimate_batch returned {}: on a poll timeout (kind timeout), or when no
\* item succeeded (kind empty, every prepared market is without a result).
\* _execute_batch_pipeline returns [] at "if not batch_estimates".
PipeBatchEmpty(kind) ==
    /\ pipe.pc = "batch"
    /\ pipe' = [pipe EXCEPT
                  !.pc = "returned", !.batch = kind,
                  !.item = [i \in ScanItems |->
                              IF kind = "empty" /\ pipe.item[i].st = "prepared"
                              THEN [pipe.item[i] EXCEPT !.st = "missing"]
                              ELSE pipe.item[i]]]
    /\ UNCHANGED <<scanVars, storeVars, venueVars, taskVars, blindVars,
                   schedVars, bookVars, parseVars, calcVars, httpVars,
                   bootVars, slotsVars>>

\* estimate_batch raised: the sync fallback loop is entered
PipeBatchRaise ==
    /\ pipe.pc = "batch"
    /\ pipe' = [pipe EXCEPT !.pc = "fallback", !.batch = "raised"]
    /\ UNCHANGED <<scanVars, storeVars, venueVars, taskVars, blindVars,
                   schedVars, bookVars, parseVars, calcVars, httpVars,
                   bootVars, slotsVars>>

\* The next market of "for p in prepared_markets"
NextPrepared(pp) ==
    IF ItemsIn(pp, {"prepared"}) = {} THEN 0
    ELSE CHOOSE i \in ItemsIn(pp, {"prepared"}) :
            \A j \in ItemsIn(pp, {"prepared"}) : i <= j

\* One iteration of the sync fallback loop: estimate, _finalize_market
PipeFallbackItem ==
    /\ pipe.pc = "fallback"
    /\ NextPrepared(pipe) # 0
    /\ pipe' \in EstimateAndFinalize(pipe, NextPrepared(pipe))
    /\ UNCHANGED <<scanVars, storeVars, venueVars, taskVars, blindVars,
                   schedVars, bookVars, parseVars, calcVars, httpVars,
                   bootVars, slotsVars>>

\* One iteration of the phase 3 loop: a market without a batch result is
\* skipped, the others are finalized with the batch estimate
PipeFinalizeItem ==
    /\ pipe.pc = "finalizing"
    /\ NextPrepared(pipe) # 0
    /\ LET i == NextPrepared(pipe)
       IN  IF i \notin pipe.results
           THEN pipe' = [pipe EXCEPT !.item[i].st = "missing"]
           ELSE pipe' \in {MarketFinalized(pipe, i, "researched"),
                           MarketFinalized(pipe, i, "recommended"),
                           MarketRaised(pipe, i, 0), MarketRaised(pipe, i, 1)}
    /\ UNCHANGED <<scanVars, storeVars, venueVars, taskVars, blindVars,
                   schedVars, bookVars, parseVars, calcVars, httpVars,
                   bootVars, slotsVars>>

\* The platform's part of execute_scan is over: gather returned (sync), the
\* batch pipeline returned, or the per-platform handler caught an exception
PlatformLoopDone(pp) ==
    \/ pp.pc \in {"raised", "returned"}
    \/ /\ pp.pc = "processing"
       /\ ItemsIn(pp, {"fetched", "estimating"}) = {}
       /\ pp.mode = "batch" => ItemsIn(pp, {"prepared"}) = {}
    \/ /\ pp.pc \in {"fallback", "finalizing"}
       /\ ItemsIn(pp, {"prepared"}) = {}

\* complete_scan and save_scan_summary
PipeComplete ==
    /\ PlatformLoopDone(pipe)
    /\ pipe' = [pipe EXCEPT !.pc = "done"]
    /\ progress' = complete_scan(progress)
    /\ UNCHANGED <<scanPc, scanStarts, storeVars, venueVars, taskVars,
                   blindVars, schedVars, bookVars, parseVars, calcVars,
                   httpVars, bootVars, slotsVars>>

\* complete_scan ran, save_scan_summary raised: the outer handler calls
\* fail_scan
PipeSummaryRaise ==
    /\ PlatformLoopDone(pipe)
    /\ pipe' = [pipe EXCEPT !.pc = "done", !.summary_failed = TRUE]
    /\ progress' = fail_scan(complete_scan(progress))
    /\ UNCHANGED <<scanPc, scanStarts, storeVars, venueVars, taskVars,
                   blindVars, schedVars, bookVars, parseVars, calcVars,
                   httpVars, bootVars, slotsVars>>

(***************************************************************************)
(* services/scheduler.py: the AsyncIOScheduler and its five jobs.  Every   *)
(* job is added with max_instances=1; on a fire the scheduler submits a    *)
(* run only while the job has fewer running instances than that.           *)
(***************************************************************************)

\* bound: fires of one job in a behaviour
MaxFires == 2

Jobs == {"full_scan", "price_check", "resolution_check", "trade_sync",
         "daily_digest"}

\* add_job(..., max_instances=2)
TwoInstances(j) == 2

\* add_job(..., max_instances=1), the same for the five jobs
max_instances(j) == 1

JobsInit ==
    [j \in Jobs |-> [instances |-> 0, fires |-> 0, skipped |-> 0,
                     logged |-> 0, alerts |-> 0]]

\* The trigger of job j fires and a run is submitted: the job function is
\* entered
JobFire(j) ==
    /\ jobs[j].fires < MaxFires
    /\ jobs[j].instances < max_instances(j)
    /\ jobs' = [jobs EXCEPT ![j].instances = @ + 1, ![j].fires = @ + 1]
    /\ UNCHANGED <<scanVars, storeVars, venueVars, taskVars, blindVars,
                   pipeVars, bookVars, parseVars, calcVars, httpVars,
                   bootVars, slotsVars>>

\* The trigger fires while the job's instances are at the maximum: the run
\* is skipped
JobFireSkipped(j) ==
    /\ jobs[j].fires < MaxFires
    /\ jobs[j].instances >= max_instances(j)
    /\ jobs' = [jobs EXCEPT ![j].skipped = @ + 1, ![j].fires = @ + 1]
    /\ UNCHANGED <<scanVars, storeVars, venueVars, taskVars, blindVars,
                   pipeVars, bookVars, parseVars, calcVars, httpVars,
                   bootVars, slotsVars>>

\* The awaited call of the job function returned: the result is logged
JobReturn(j) ==
    /\ jobs[j].instances > 0
    /\ jobs' = [jobs EXCEPT ![j].instances = @ - 1]
    /\ UNCHANGED <<scanVars, storeVars, venueVars, taskVars, blindVars,
                   pipeVars, bookVars, parseVars, calcVars, httpVars,
                   bootVars, slotsVars>>

\* The awaited call raised: "except Exception: logger.exception(...)" and
\* the job function returns; nothing else is called
JobRaise(j) ==
    /\ jobs[j].instances > 0
    /\ jobs' = [jobs EXCEPT ![j].instances = @ - 1, ![j].logged = @ + 1]
    /\ UNCHANGED <<scanVars, storeVars, venueVars, taskVars, blindVars,
                   pipeVars, bookVars, parseVars, calcVars, httpVars,
                   bootVars, slotsVars>>

(***************************************************************************)
(* The open auto-trades of the two automatic paths, each on its own market *)
(* (services/scanner.py: _finalize_market and _sweep_untraded_recs, sized   *)
(* as above).  Neither path reads the open trades before it orders.        *)
(***************************************************************************)

\* bound: open auto-trades in one behaviour
MaxOpenTrades == 6

max_exposure_fraction == 25        \* 0.25, in percent

BookInit == [in_scan |-> 0, swept |-> 0, open |-> 0]

\* The amount recorded for an order sized from kelly at price pc, in cents
TradeAmount(kelly, direction, pc) ==
    LET ppc == PricePerContract(direction, pc)
    IN  Contracts(BetAmount(kelly, config.bankroll), ppc) * ppc

\* _finalize_market for one more market of a scan: the recommendation passes
\* the auto-trade gate, the order is placed and the trade inserted as open
BookInScanTrade(out, pc) ==
    /\ book.in_scan + book.swept < MaxOpenTrades
    /\ Recommends(out, pc)
    /\ LET row == RecRow("m1", 0, 0, pc, out)
       IN  /\ AutoTrades(row)
           /\ book' = [book EXCEPT
                         !.in_scan = @ + 1,
                         !.open = @ + TradeAmount(row.kelly_fraction,
                                                  row.direction, pc)]
    /\ UNCHANGED <<scanVars, storeVars, venueVars, taskVars, blindVars,
                   pipeVars, schedVars, parseVars, calcVars, httpVars,
                   bootVars, slotsVars>>

\* One iteration of _sweep_untraded_recs for an untraded recommendation with
\* estimate pp whose market is now at price pc
BookSweepTrade(pp, pc) ==
    /\ book.in_scan + book.swept < MaxOpenTrades
    /\ config.auto_trade_enabled
    /\ calculate_ev(pp, pc) # NoEv
    /\ LET ev_result == calculate_ev(pp, pc)
           kelly == calculate_kelly(ev_result.edge, pc, ev_result.direction,
                                    "medium")
       IN  /\ ev_result.ev >= auto_trade_min_ev
           /\ BetAmount(kelly, config.bankroll) >= 1000000
           /\ book' = [book EXCEPT
                         !.swept = @ + 1,
                         !.open = @ + TradeAmount(kelly, ev_result.direction,
                                                  pc)]
    /\ UNCHANGED <<scanVars, storeVars, venueVars, taskVars, blindVars,
                   pipeVars, schedVars, parseVars, calcVars, httpVars,
                   bootVars, slotsVars>>

(***************************************************************************)
(* services/researcher.py: _parse_response, on the probability and the     *)
(* confidence of the JSON object; probabilities in percent.  A raw         *)
(* probability is a finite number or one of the values json.loads accepts  *)
(* as NaN, Infinity, -Infinity.                                            *)
(***************************************************************************)

RawProbabilities ==
    [kind : {"finite"}, value : -5..105]
        \cup [kind : {"nan", "inf", "-inf"}, value : {0}]

RawConfidences == {"low", "medium", "high", "unsure"}

\* The raw value passed on as it is
Unclamped(raw) == raw.value

\* math.isfinite, the 0.5 default, then max(0.01, min(0.99, raw_prob))
ClampProbability(raw) ==
    IF raw.kind # "finite" THEN 50
    ELSE Max(1, Min(99, raw.value))

\* An unexpected confidence becomes medium
NormaliseConfidence(raw_confidence) ==
    IF raw_confidence \in {"low", "medium", "high"} THEN raw_confidence
    ELSE "medium"

_parse_response(raw_prob, raw_confidence) ==
    [probability |-> ClampProbability(raw_prob),
     confidence |-> NormaliseConfidence(raw_confidence)]

NoOutput == [probability |-> 0, confidence |-> "none"]

ParseIdle ==
    [pc |-> "none", raw_prob |-> [kind |-> "finite", value |-> 50],
     raw_confidence |-> "medium", output |-> NoOutput]

\* Researcher.estimate / estimate_batch: the response text is parsed
ParseResponse ==
    /\ parse.pc = "raw"
    /\ parse' = [parse EXCEPT
                   !.pc = "parsed",
                   !.output = _parse_response(parse.raw_prob,
                                              parse.raw_confidence)]
    /\ UNCHANGED <<scanVars, storeVars, venueVars, taskVars, blindVars,
                   pipeVars, schedVars, bookVars, calcVars, httpVars,
                   bootVars, slotsVars>>

\* _finalize_market, step 6: the estimate row is inserted from the output
StoreParsed(m) ==
    /\ parse.pc = "parsed"
    /\ estimates' = insert_estimate(estimates, m, parse.output.probability,
                                    parse.output.confidence)
    /\ parse' = [parse EXCEPT !.pc = "stored"]
    /\ UNCHANGED <<markets, snapshots, recs, trades, perf, perfResult, config>>
    /\ UNCHANGED <<scanVars, venueVars, taskVars, blindVars, pipeVars,
                   schedVars, bookVars, calcVars, httpVars, bootVars,
                   slotsVars>>

(***************************************************************************)
(***************************************************************************)
(* services/http_utils.py: request_with_retry, and services/kalshi.py:     *)
(* check_resolution and check_resolutions_batch on top of it.              *)
(***************************************************************************)

\* stop_after_attempt(3)
stop_after_attempt == 3

Pids == {"A", "B"}

\* What one client.request + raise_for_status can end in: a 2xx response
\* (by the market's status and result, or with a body that is not JSON),
\* an HTTPStatusError by status class, or a transport error by class.
Responses == {"open", "yes", "no", "void", "bad_json"}

StatusErrors == {"4xx", "429", "5xx"}

TransportErrors ==
    {"ConnectError", "ConnectTimeout", "ReadTimeout", "PoolTimeout",
     "TooManyRedirects"}

Outcomes == Responses \cup StatusErrors \cup TransportErrors

\* A predicate that retries whatever was raised
RetryEverything(o) == o \notin Responses

\* _is_retryable
_is_retryable(o) ==
    \/ o \in {"ConnectError", "ConnectTimeout", "ReadTimeout", "PoolTimeout"}
    \/ o \in {"5xx", "429"}

\* The exception one failed attempt raises
ExceptionOf(o) == IF o \in StatusErrors THEN "HTTPStatusError" ELSE o

\* check_resolution's except clause: httpx.HTTPError, ValueError, KeyError
CaughtByCheck(exc) ==
    exc \in {"HTTPStatusError", "ConnectError", "ConnectTimeout",
             "ReadTimeout", "PoolTimeout", "TooManyRedirects", "ValueError"}

\* check_resolution after a response: the dict it returns
ResolutionOf(o) ==
    CASE o = "open" -> [resolved |-> FALSE, outcome |-> "none", cancelled |-> FALSE]
      [] o = "yes" -> [resolved |-> TRUE, outcome |-> "yes", cancelled |-> FALSE]
      [] o = "no" -> [resolved |-> TRUE, outcome |-> "no", cancelled |-> FALSE]
      [] OTHER -> [resolved |-> TRUE, outcome |-> "none", cancelled |-> TRUE]

NoRequest ==
    [state |-> "none", attempts |-> 0, first |-> "none", last |-> "none",
     error |-> "none", ret |-> "none"]

HttpIdle ==
    [pc |-> "idle", todo |-> <<>>, asked |-> <<>>, req |-> [p \in Pids |-> NoRequest],
     results |-> {}, raised |-> "none"]

\* check_resolutions_batch is called with a list of ids
BatchStart(ids) ==
    /\ http.pc = "idle"
    /\ http' = [http EXCEPT !.pc = "checking", !.todo = ids, !.asked = ids]
    /\ UNCHANGED <<scanVars, storeVars, venueVars, taskVars, blindVars,
                   pipeVars, schedVars, bookVars, parseVars, calcVars,
                   bootVars, slotsVars>>

\* One attempt of request_with_retry goes out: the first one of
\* check_resolution(pid), or the next one after the backoff wait
SendRequest ==
    /\ http.pc = "checking"
    /\ http.todo # <<>>
    /\ LET pid == Head(http.todo)
       IN  /\ http.req[pid].state \in {"none", "backoff"}
           /\ http' = [http EXCEPT !.req[pid].state = "inflight",
                                   !.req[pid].attempts = @ + 1]
    /\ UNCHANGED <<scanVars, storeVars, venueVars, taskVars, blindVars,
                   pipeVars, schedVars, bookVars, parseVars, calcVars,
                   bootVars, slotsVars>>

\* The request as it stands after an attempt ended in o
Attempted(r, o) ==
    [r EXCEPT !.first = IF r.attempts = 1 THEN o ELSE @, !.last = o]

\* The attempt gets a 2xx response: request_with_retry returns it and
\* check_resolution returns the dict, or None when the body is not JSON
AttemptResponse(o) ==
    /\ http.pc = "checking"
    /\ http.todo # <<>>
    /\ o \in Responses
    /\ LET pid == Head(http.todo)
           r == Attempted(http.req[pid], o)
       IN  /\ http.req[pid].state = "inflight"
           /\ http' = [http EXCEPT
                 !.req[pid] = [r EXCEPT !.state = "response",
                                        !.ret = IF o = "bad_json" THEN "None"
                                                ELSE "dict"],
                 !.results = IF o = "bad_json" THEN @
                             ELSE @ \cup {[pid |-> pid,
                                           result |-> ResolutionOf(o)]},
                 !.todo = Tail(@)]
    /\ UNCHANGED <<scanVars, storeVars, venueVars, taskVars, blindVars,
                   pipeVars, schedVars, bookVars, parseVars, calcVars,
                   bootVars, slotsVars>>

\* The attempt raises and the predicate says no retry: the exception itself
\* leaves request_with_retry, check_resolution catches it and returns None
AttemptFatal(o) ==
    /\ http.pc = "checking"
    /\ http.todo # <<>>
    /\ o \notin Responses
    /\ ~_is_retryable(o)
    /\ LET pid == Head(http.todo)
           r == Attempted(http.req[pid], o)
           caught == CaughtByCheck(ExceptionOf(o))
       IN  /\ http.req[pid].state = "inflight"
           /\ http' = [http EXCEPT
                 !.req[pid] = [r EXCEPT !.state = "error",
                                        !.error = ExceptionOf(o),
                                        !.ret = IF caught THEN "None"
                                                ELSE "raised"],
                 !.todo = IF caught THEN Tail(@) ELSE @,
                 !.pc = IF caught THEN @ ELSE "raised",
                 !.raised = IF caught THEN @ ELSE ExceptionOf(o)]
    /\ UNCHANGED <<scanVars, storeVars, venueVars, taskVars, blindVars,
                   pipeVars, schedVars, bookVars, parseVars, calcVars,
                   bootVars, slotsVars>>

\* The attempt raises a retryable exception before the last attempt:
\* request_with_retry sleeps and will try again
AttemptRetry(o) ==
    /\ http.pc = "checking"
    /\ http.todo # <<>>
    /\ o \notin Responses
    /\ _is_retryable(o)
    /\ LET pid == Head(http.todo)
           r == Attempted(http.req[pid], o)
       IN  /\ http.req[pid].state = "inflight"
           /\ http.req[pid].attempts < stop_after_attempt
           /\ http' = [http EXCEPT !.req[pid] = [r EXCEPT !.state = "backoff"]]
    /\ UNCHANGED <<scanVars, storeVars, venueVars, taskVars, blindVars,
                   pipeVars, schedVars, bookVars, parseVars, calcVars,
                   bootVars, slotsVars>>

\* The last attempt raises a retryable exception: the decorator has no
\* reraise=True, so a tenacity.RetryError leaves request_with_retry.
\* check_resolution does not catch it, and neither does the loop of
\* check_resolutions_batch: the batch call raises and its results are lost
AttemptExhausted(o) ==
    /\ http.pc = "checking"
    /\ http.todo # <<>>
    /\ o \notin Responses
    /\ _is_retryable(o)
    /\ LET pid == Head(http.todo)
           r == Attempted(http.req[pid], o)
           caught == CaughtByCheck("RetryError")
       IN  /\ http.req[pid].state = "inflight"
           /\ http.req[pid].attempts >= stop_after_attempt
           /\ http' = [http EXCEPT
                 !.req[pid] = [r EXCEPT !.state = "error",
                                        !.error = "RetryError",
                                        !.ret = IF caught THEN "None"
                                                ELSE "raised"],
                 !.todo = IF caught THEN Tail(@) ELSE @,
                 !.pc = IF caught THEN @ ELSE "raised",
                 !.raised = IF caught THEN @ ELSE "RetryError"]
    /\ UNCHANGED <<scanVars, storeVars, venueVars, taskVars, blindVars,
                   pipeVars, schedVars, bookVars, parseVars, calcVars,
                   bootVars, slotsVars>>

\* check_resolutions_batch: the loop is over, results is returned
BatchReturn ==
    /\ http.pc = "checking"
    /\ http.todo = <<>>
    /\ http' = [http EXCEPT !.pc = "returned"]
    /\ UNCHANGED <<scanVars, storeVars, venueVars, taskVars, blindVars,
                   pipeVars, schedVars, bookVars, parseVars, calcVars,
                   bootVars, slotsVars>>

(***************************************************************************)
(* main.py: lifespan, and services/scan_progress.py: reset_stale_scan.     *)
(* The progress record lives in the memory of the process; the wall clock  *)
(* is in minutes.                                                          *)
(***************************************************************************)

MaxBoots == 2
MaxNow == 180
ClockStep == 60

\* reset_stale_scan(max_age_minutes=120) at wall-clock time t
reset_stale_scan(pr, t) ==
    IF ~pr.is_running THEN pr
    ELSE IF pr.started_at = -1
    THEN [pr EXCEPT !.is_running = FALSE, !.phase = "idle"]
    ELSE IF t - pr.started_at > 120
    THEN [pr EXCEPT !.is_running = FALSE, !.phase = "failed"]
    ELSE pr

\* A process that is serving requests
BootIdle ==
    [pc |-> "up", boots |-> 0, sweeps |-> 0, now |-> 0,
     seen |-> ProgressInit, left |-> ProgressInit]

\* lifespan, startup half: the database and the API key are verified, the
\* scheduler is configured and started.  reset_stale_scan is not called.
LifespanStartup ==
    /\ boot.pc = "starting"
    /\ boot' = [boot EXCEPT !.pc = "up", !.seen = progress, !.left = progress]
    /\ UNCHANGED <<scanVars, storeVars, venueVars, taskVars, blindVars,
                   pipeVars, schedVars, bookVars, parseVars, calcVars,
                   httpVars, slotsVars>>

\* The wall clock moves on
Tick ==
    /\ boot.now + ClockStep <= MaxNow
    /\ boot' = [boot EXCEPT !.now = @ + ClockStep]
    /\ UNCHANGED <<scanVars, storeVars, venueVars, taskVars, blindVars,
                   pipeVars, schedVars, bookVars, parseVars, calcVars,
                   httpVars, slotsVars>>

\* The process dies and is started again: the module-level _progress dict
\* is built anew and the coroutines of the old process are gone
ProcessRestart ==
    /\ boot.pc = "up"
    /\ boot.boots < MaxBoots
    /\ boot' = [boot EXCEPT !.pc = "starting", !.boots = @ + 1, !.sweeps = 0]
    /\ progress' = ProgressInit
    /\ scanPc' = [p \in ScanProcs |-> "idle"]
    /\ UNCHANGED <<scanStarts, storeVars, venueVars, taskVars, blindVars,
                   pipeVars, schedVars, bookVars, parseVars, calcVars,
                   httpVars, slotsVars>>

(***************************************************************************)
(* services/scanner.py: the coroutines of one scan and of one re-estimate  *)
(* pass around _claude_semaphore.  A scan in sync mode gathers one         *)
(* _process_market task per fetched market; in batch mode it gathers one   *)
(* _prepare_market task per market and, when estimate_batch raises, goes   *)
(* through the prepared markets one after the other.                       *)
(***************************************************************************)

MaxScanTasks == 6
MaxSweepMarkets == 2

\* asyncio.Semaphore(5)
_claude_semaphore == 5

ScanTasks == 1..MaxScanTasks

\* A semaphore that lets every caller in
SemaphoreAdmitsAll(permits) == TRUE

\* async with _claude_semaphore: the caller gets in when a permit is left
SemaphoreAdmits(permits) == permits > 0

SlotsIdle ==
    [mode |-> "none", task |-> [t \in ScanTasks |-> "idle"],
     batch |-> "none", permits |-> _claude_semaphore,
     reestimate |-> [pc |-> "idle", left |-> 0]]

\* _prepare_market up to its await: upsert_market, insert_snapshot, the
\* cache check and the blind input, then researcher.screen is awaited.
\* No semaphore is taken.
PrepareBegin(t) ==
    /\ slots.mode \in {"sync", "batch"}
    /\ slots.task[t] = "idle"
    /\ slots' = [slots EXCEPT !.task[t] = "screening"]
    /\ UNCHANGED <<scanVars, storeVars, venueVars, taskVars, blindVars,
                   pipeVars, schedVars, bookVars, parseVars, calcVars,
                   httpVars, bootVars>>

\* _prepare_market returns None before the pre-screen: price outside (0,1)
\* or a cached estimate
PrepareSkipped(t) ==
    /\ slots.mode \in {"sync", "batch"}
    /\ slots.task[t] = "idle"
    /\ slots' = [slots EXCEPT !.task[t] = "skipped"]
    /\ UNCHANGED <<scanVars, storeVars, venueVars, taskVars, blindVars,
                   pipeVars, schedVars, bookVars, parseVars, calcVars,
                   httpVars, bootVars>>

\* researcher.screen returns: the market is prepared, or skipped on "no"
ScreenReturn(t, should_research) ==
    /\ slots.task[t] = "screening"
    /\ slots' = [slots EXCEPT !.task[t] = IF should_research THEN "prepared"
                                          ELSE "skipped"]
    /\ UNCHANGED <<scanVars, storeVars, venueVars, taskVars, blindVars,
                   pipeVars, schedVars, bookVars, parseVars, calcVars,
                   httpVars, bootVars>>

\* _process_market: the semaphore is entered and researcher.estimate called
EstimateAcquire(t) ==
    /\ slots.mode = "sync"
    /\ slots.task[t] = "prepared"
    /\ SemaphoreAdmits(slots.permits)
    /\ slots' = [slots EXCEPT !.task[t] = "estimating", !.permits = @ - 1]
    /\ UNCHANGED <<scanVars, storeVars, venueVars, taskVars, blindVars,
                   pipeVars, schedVars, bookVars, parseVars, calcVars,
                   httpVars, bootVars>>

\* researcher.estimate returns or raises: the semaphore is left
EstimateRelease(t) ==
    /\ slots.task[t] = "estimating"
    /\ slots' = [slots EXCEPT !.task[t] = "done", !.permits = @ + 1]
    /\ UNCHANGED <<scanVars, storeVars, venueVars, taskVars, blindVars,
                   pipeVars, schedVars, bookVars, parseVars, calcVars,
                   httpVars, bootVars>>

\* _execute_batch_pipeline: the gather of the prepare tasks is over and
\* estimate_batch raises, the fallback loop begins
BatchFallbackBegin ==
    /\ slots.mode = "batch"
    /\ slots.batch = "none"
    /\ \A t \in ScanTasks : slots.task[t] \in {"prepared", "skipped"}
    /\ \E t \in ScanTasks : slots.task[t] = "prepared"
    /\ slots' = [slots EXCEPT !.batch = "fallback"]
    /\ UNCHANGED <<scanVars, storeVars, venueVars, taskVars, blindVars,
                   pipeVars, schedVars, bookVars, parseVars, calcVars,
                   httpVars, bootVars>>

\* The fallback loop, next prepared market: the semaphore is entered and
\* researcher.estimate called
FallbackAcquire(t) ==
    /\ slots.batch = "fallback"
    /\ slots.task[t] = "prepared"
    /\ \A u \in ScanTasks :
          /\ slots.task[u] # "estimating"
          /\ u < t => slots.task[u] # "prepared"
    /\ SemaphoreAdmits(slots.permits)
    /\ slots' = [slots EXCEPT !.task[t] = "estimating", !.permits = @ - 1]
    /\ UNCHANGED <<scanVars, storeVars, venueVars, taskVars, blindVars,
                   pipeVars, schedVars, bookVars, parseVars, calcVars,
                   httpVars, bootVars>>

\* check_and_reestimate, next market whose price moved: the semaphore is
\* entered and researcher.estimate called
ReestimateAcquire ==
    /\ slots.reestimate.pc = "idle"
    /\ slots.reestimate.left > 0
    /\ SemaphoreAdmits(slots.permits)
    /\ slots' = [slots EXCEPT !.reestimate.pc = "estimating",
                              !.permits = @ - 1]
    /\ UNCHANGED <<scanVars, storeVars, venueVars, taskVars, blindVars,
                   pipeVars, schedVars, bookVars, parseVars, calcVars,
                   httpVars, bootVars>>

\* check_and_reestimate: researcher.estimate returns or raises
ReestimateRelease ==
    /\ slots.reestimate.pc = "estimating"
    /\ slots' = [slots EXCEPT !.reestimate.pc = "idle",
                              !.reestimate.left = @ - 1,
                              !.permits = @ + 1]
    /\ UNCHANGED <<scanVars, storeVars, venueVars, taskVars, blindVars,
                   pipeVars, schedVars, bookVars, parseVars, calcVars,
                   httpVars, bootVars>>

(***************************************************************************)
(* models/database.py: get_config, update_config and recalculate_bankroll  *)
(* on the two bankroll rows of the config table; amounts in cents, pnl in  *)
(* 1e-4 dollars, -1 for a row that is not in the table.                    *)
(***************************************************************************)

MaxPnlRows == 2

ConfigTables == [bankroll : {-1, 500000, 1200000},
                 initial_bankroll : {-1, 500000, 1000000}]

PnlRows == [status : {"open", "closed", "cancelled"}, pnl_set : BOOLEAN,
            pnl : {-5000000, 0, 12345, 11662000}]

PnlTables == UNION {[1..n -> PnlRows] : n \in 0..MaxPnlRows}

\* get_config: the settings defaults, overridden by the rows of the table
get_config(table) ==
    [bankroll |->
         IF table.bankroll = -1 THEN DefaultBankroll ELSE table.bankroll,
     initial_bankroll |->
         IF table.initial_bankroll = -1 THEN DefaultBankroll
         ELSE table.initial_bankroll]

\* update_config: one upsert per key
update_config(table, updates) ==
    [table EXCEPT !.bankroll = updates.bankroll,
                  !.initial_bankroll = updates.initial_bankroll]

RECURSIVE cumulative_pnl(_, _)
\* The pnl of the closed trades whose pnl is not null, rows 1..n
cumulative_pnl(ts, n) ==
    IF n = 0 THEN 0
    ELSE cumulative_pnl(ts, n - 1)
            + (IF ts[n].status = "closed" /\ ts[n].pnl_set THEN ts[n].pnl
               ELSE 0)

\* A recalculation that starts from the bankroll row
RecalculateFromBankroll(table, ts) ==
    LET initial == get_config(table).bankroll
        new_bankroll == Round(initial * 100 + cumulative_pnl(ts, Len(ts)), 100)
    IN  update_config(table, [initial_bankroll |-> initial,
                              bankroll |-> new_bankroll])

\* recalculate_bankroll: the config table it leaves
recalculate_bankroll(table, ts) ==
    LET initial == get_config(table).initial_bankroll
        new_bankroll == Round(initial * 100 + cumulative_pnl(ts, Len(ts)), 100)
    IN  update_config(table, [initial_bankroll |-> initial,
                              bankroll |-> new_bankroll])

\* One call of recalculate_bankroll; the table the first call left is kept
CallRecalculate ==
    /\ calc.fn = "recalculate_bankroll"
    /\ calc.calls < 2
    /\ LET after == recalculate_bankroll(calc.table, calc.rows)
       IN  calc' = [calc EXCEPT
                      !.calls = @ + 1,
                      !.table = after,
                      !.first = IF calc.calls = 0 THEN after ELSE @]
    /\ UNCHANGED <<scanVars, storeVars, venueVars, taskVars, blindVars,
                   pipeVars, schedVars, bookVars, parseVars, httpVars,
                   bootVars, slotsVars>>

(* Specifications.                                                         *)
(***************************************************************************)

ScanVarsInit ==
    /\ progress = ProgressInit
    /\ scanPc = [p \in ScanProcs |-> "idle"]
    /\ scanStarts = 0

\* An empty store; auto-trade is a config switch, either way at start
StoreInit ==
    /\ markets = [m \in Markets |-> NoMarket]
    /\ snapshots = <<>>
    /\ estimates = <<>>
    /\ recs = <<>>
    /\ trades = <<>>
    /\ perf = <<>>
    /\ perfResult = "unset"
    /\ config \in {[bankroll |-> DefaultBankroll,
                    initial_bankroll |-> DefaultBankroll,
                    auto_trade_enabled |-> b] : b \in BOOLEAN}

VenueInit ==
    /\ venue = [m \in Markets |-> [result |-> "open", price |-> 30]]
    /\ orders = <<>>
    /\ fills = <<>>

TaskInit ==
    /\ flow = [f \in Flows |-> FlowIdle]
    /\ sweep = [w \in Sweepers |-> SweepIdle]
    /\ respass = [r \in ResPasses |-> ResIdle]
    /\ sync = [y \in Syncers |-> SyncIdle]

BlindIdle ==
    /\ mdata = <<>>
    /\ sent = NoneSent

Init ==
    /\ ScanVarsInit /\ StoreInit /\ VenueInit /\ TaskInit /\ BlindIdle
    /\ pipe = PipeIdle
    /\ jobs = JobsInit
    /\ book = BookInit
    /\ parse = ParseIdle
    /\ calc = CalcIdle
    /\ http = HttpIdle
    /\ boot = BootIdle
    /\ slots = SlotsIdle

ScanInit == Init

ScanNext ==
    \E p \in ScanProcs :
        \/ TriggerScan(p)
        \/ TriggerScanBusy(p)
        \/ RejectedReturn(p)
        \/ ExecuteScanStart(p)
        \/ ExecuteScanStartRaise(p)
        \/ FetchDone(p)
        \/ FetchRaise(p)
        \/ ResearchDone(p)
        \/ ScanFail(p)
        \/ ScanReturn(p)

SpecScan == ScanInit /\ [][ScanNext]_vars

\* The steps of a scan that is inside execute_scan: once start_scan has run
\* and the first await is reached, the event loop keeps resuming the task.
ScanStep(p) ==
    \/ FetchDone(p)
    \/ FetchRaise(p)
    \/ ResearchDone(p)
    \/ ScanFail(p)
    \/ ScanReturn(p)

SpecScanFair == SpecScan /\ \A p \in ScanProcs : WF_vars(ScanStep(p))

EstimateNext(FS) ==
    \/ \E f \in FS, m \in Markets :
        \/ PrepareMarket(f, m)
        \/ PrepareMarketCached(f, m)
        \/ ReestimateBegin(f, m)
        \/ RefreshBegin(f, m)
    \/ \E f \in FS, out \in EstimateOutputs :
        \/ FinalizeMarket(f, out)
        \/ ReestimateFinalize(f, out)
        \/ RefreshFinalize(f, out)
    \/ \E f \in FS : EstimateFailed(f)

FlowOrderNext(FS) ==
    \E f \in FS :
        \/ FlowOrderAccepted(f)
        \/ FlowOrderReturn(f)
        \/ FlowOrderRaise(f)


ResolutionNext(RS) ==
    \/ \E r \in RS :
        \/ ResBegin(r)
        \/ ResApply(r)
    \/ \E r \in RS, m \in Markets :
        \/ ResFetch(r, m)
        \/ ResFetchError(r, m)
    \/ \E m \in Markets, outcome \in {"yes", "no"} :
        manually_resolve_market(m, outcome)

VenueNext ==
    \/ \E m \in Markets, result \in {"yes", "no", "void"} :
        VenueFinalize(m, result)
    \/ \E m \in Markets, pc \in Prices : VenuePriceMove(m, pc)

\* Recommendation writers: two research coroutines of any kind at once, a
\* resolution pass and the manual resolve; auto-trade is off.
RecInit == Init /\ ~config.auto_trade_enabled

RecNext == EstimateNext(Flows) \/ ResolutionNext({"r1"}) \/ VenueNext

Spec == RecInit /\ [][RecNext]_vars

\* Resolution: two passes at once (the scheduler job and POST
\* /resolutions/check), the manual resolve, and one scan market task with
\* auto-trade on, which supplies estimates, recommendations and trades.
ResInit == Init /\ config.auto_trade_enabled

ResNext ==
    \/ EstimateNext({"f1"})
    \/ FlowOrderNext({"f1"})
    \/ ResolutionNext(ResPasses)
    \/ VenueNext

SpecRes == ResInit /\ [][ResNext]_vars

\* Auto-trading scans: POST /scan and the scheduler's full_scan job, each
\* with its market task while it is researching and its sweep after
\* complete_scan; auto-trade is on.
TradeInit == Init /\ config.auto_trade_enabled

TradeScans == {"post_scan", "full_scan_job"}

\* A market task of scan FlowOwner[f], created while the scan is researching
ScanPrepareMarket(f, m) ==
    /\ scanPc[FlowOwner[f]] = "researching"
    /\ PrepareMarket(f, m)

ScanPrepareMarketCached(f, m) ==
    /\ scanPc[FlowOwner[f]] = "researching"
    /\ PrepareMarketCached(f, m)

\* The sweep of scan SweepOwner[w], run after its complete_scan
ScanSweepBegin(w) ==
    /\ scanPc[SweepOwner[w]] = "post"
    /\ SweepBegin(w)

TradeNext ==
    \/ \E p \in TradeScans :
        \/ TriggerScan(p)
        \/ ExecuteScanStart(p)
        \/ FetchDone(p)
        \/ ResearchDone(p)
        \/ ScanReturn(p)
    \/ \E f \in Flows, m \in Markets :
        \/ ScanPrepareMarket(f, m)
        \/ ScanPrepareMarketCached(f, m)
    \/ \E f \in Flows, out \in EstimateOutputs : FinalizeMarket(f, out)
    \/ \E f \in Flows : EstimateFailed(f)
    \/ FlowOrderNext(Flows)
    \/ \E w \in Sweepers :
        \/ ScanSweepBegin(w)
        \/ SweepOrderAccepted(w)
        \/ SweepOrderReturn(w)
        \/ SweepOrderRaise(w)
    \/ \E w \in Sweepers, r \in DOMAIN recs :
        \/ SweepSkip(w, r)
        \/ SweepOrder(w, r)
    \/ \E m \in Markets, pc \in Prices : VenuePriceMove(m, pc)

SpecTrade == TradeInit /\ [][TradeNext]_vars

\* The scheduled scan run again and again with auto-trade on, its market
\* task and its sweep, every outcome of the awaited order included.
AckInit == Init /\ config.auto_trade_enabled

\* bounds: how many times the scheduled scan runs, and how many orders the
\* exchange accepts
MaxAckScans == 2

MaxOrders == 2

\* The prices the exchange moves between here: below, at and above the
\* lower of the two estimates
SweepPrices == Prices \cup {10}

AckNext ==
    \/ scanStarts < MaxAckScans /\ ExecuteScanStart("full_scan_job")
    \/ FetchDone("full_scan_job")
    \/ ResearchDone("full_scan_job")
    \/ ScanReturn("full_scan_job")
    \/ \E m \in Markets :
        \/ ScanPrepareMarket("f2", m)
        \/ ScanPrepareMarketCached("f2", m)
    \/ \E out \in EstimateOutputs : FinalizeMarket("f2", out)
    \/ EstimateFailed("f2")
    \/ Len(orders) < MaxOrders /\ FlowOrderAccepted("f2")
    \/ FlowOrderReturn("f2")
    \/ FlowOrderRaise("f2")
    \/ FlowOrderLost("f2")
    \/ ScanSweepBegin("s2")
    \/ Len(orders) < MaxOrders /\ SweepOrderAccepted("s2")
    \/ SweepOrderReturn("s2")
    \/ SweepOrderRaise("s2")
    \/ SweepOrderLost("s2")
    \/ \E r \in DOMAIN recs :
        \/ SweepSkip("s2", r)
        \/ SweepOrder("s2", r)
    \/ \E m \in Markets, pc \in SweepPrices : VenuePriceMove(m, pc)

SpecAck == AckInit /\ [][AckNext]_vars

\* The resolution job run again and again, its loop raising or not, beside
\* one auto-trading scan market task; the scheduler keeps firing the job.
ResPassNext(r) ==
    \/ ResBegin(r)
    \/ ResApply(r)
    \/ ResRaisedReturn(r)
    \/ \E m \in Markets :
        \/ ResFetch(r, m)
        \/ ResFetchError(r, m)
    \/ \E m \in Markets, stage \in ResolveStages : ResApplyRaise(r, m, stage)

ResRaiseNext ==
    \/ \E m \in Markets : PrepareMarket("f1", m)
    \/ \E out \in EstimateOutputs : FinalizeMarket("f1", out)
    \/ EstimateFailed("f1")
    \/ FlowOrderNext({"f1"})
    \/ ResPassNext("r1")
    \/ \E m \in Markets, result \in {"yes", "no", "void"} :
        VenueFinalize(m, result)

SpecResRaise == ResInit /\ [][ResRaiseNext]_vars /\ WF_vars(ResPassNext("r1"))

\* Trade sync: one auto-trading scan market task, the exchange filling and
\* cancelling orders, the sync job, and the manual resolve.
SyncInit == Init /\ config.auto_trade_enabled

SyncNext ==
    \/ \E m \in Markets : PrepareMarket("f1", m)
    \/ \E out \in EstimateOutputs : FinalizeMarket("f1", out)
    \/ EstimateFailed("f1")
    \/ FlowOrderNext({"f1"})
    \/ \E o \in DOMAIN orders :
        \/ VenueFill(o)
        \/ VenueCancelOrder(o)
    \/ \E y \in Syncers :
        \/ SyncBegin(y)
        \/ SyncFills(y)
        \/ SyncRaise(y)
        \/ SyncReconcile(y)
    \/ \E m \in Markets, outcome \in {"yes", "no"} :
        manually_resolve_market(m, outcome)

SpecSync == SyncInit /\ [][SyncNext]_vars

\* Blind estimation: two market data records that agree on every non-price
\* field and differ in price, volume or liquidity.
SamePublicFields(a, b) ==
    /\ a.question = b.question
    /\ a.resolution_criteria = b.resolution_criteria
    /\ a.close_date = b.close_date
    /\ a.category = b.category
    /\ a.sport_type = b.sport_type
    /\ a.calibration_feedback = b.calibration_feedback

BlindInit ==
    /\ ScanVarsInit /\ StoreInit /\ VenueInit /\ TaskInit
    /\ ~config.auto_trade_enabled
    /\ mdata \in {p \in MarketData \X MarketData :
                    /\ SamePublicFields(p[1], p[2])
                    /\ p[1].price_yes = 30 /\ p[1].price_no = 70
                    /\ p[1].liquidity = 0
                    /\ p[1] # p[2]}
    /\ sent = NoneSent
    /\ pipe = PipeIdle
    /\ jobs = JobsInit
    /\ book = BookInit
    /\ parse = ParseIdle
    /\ calc = CalcIdle
    /\ http = HttpIdle
    /\ boot = BootIdle
    /\ slots = SlotsIdle

BlindNext ==
    \E path \in CallPaths, use_premium \in BOOLEAN :
        BuildRequests(path, use_premium)

SpecBlind == BlindInit /\ [][BlindNext]_vars

\* One scan in sync or in batch mode over up to MaxItems markets.
PipeInit == Init /\ ~config.auto_trade_enabled

PipeNext ==
    \/ \E mode \in {"sync", "batch"} : PipeStart(mode)
    \/ \E n \in 0..MaxItems : PipeFetchDone(n)
    \/ PipeFetchRaise
    \/ \E i \in ScanItems, out \in {"prepared", "skipped", "prepare_failed"} :
        PipePrepare(i, out)
    \/ \E i \in ScanItems : PipeEstimate(i)
    \/ PipeBatchSubmit
    \/ \E ok \in SUBSET ScanItems : PipeBatchReturn(ok)
    \/ \E kind \in {"timeout", "empty"} : PipeBatchEmpty(kind)
    \/ PipeBatchRaise
    \/ PipeFallbackItem
    \/ PipeFinalizeItem
    \/ PipeComplete
    \/ PipeSummaryRaise

SpecPipe == PipeInit /\ [][PipeNext]_vars

\* The scheduler firing its jobs, whose runs return or raise.
SchedInit == Init /\ ~config.auto_trade_enabled

SchedNext ==
    \E j \in Jobs : JobFire(j) \/ JobFireSkipped(j) \/ JobReturn(j) \/ JobRaise(j)

SpecSched == SchedInit /\ [][SchedNext]_vars

\* The recommendation gate and the auto-trade gate: a scan market task
\* finalized with estimates of every confidence, near and far from the
\* market price, with auto-trade on or off.
GateOutputs ==
    [probability : {35, 50, 90}, confidence : {"low", "medium", "high"}]

GateInit == Init

GateNext ==
    \/ \E m \in Markets : PrepareMarket("f1", m)
    \/ \E out \in GateOutputs : FinalizeMarket("f1", out)
    \/ EstimateFailed("f1")
    \/ FlowOrderNext({"f1"})
    \/ \E m \in Markets, pc \in Prices : VenuePriceMove(m, pc)

SpecGate == GateInit /\ [][GateNext]_vars

\* Auto-trades accumulating: in-scan trades and sweep trades, one market each.
ExposureInit == Init /\ config.auto_trade_enabled

ExposureNext ==
    \/ \E out \in GateOutputs, pc \in Prices : BookInScanTrade(out, pc)
    \/ \E pp \in {35, 50, 90}, pc \in Prices : BookSweepTrade(pp, pc)

SpecExposure == ExposureInit /\ [][ExposureNext]_vars

\* calculate_kelly over its inputs.
KellyInit ==
    /\ ScanVarsInit /\ StoreInit /\ VenueInit /\ TaskInit /\ BlindIdle
    /\ ~config.auto_trade_enabled
    /\ pipe = PipeIdle
    /\ jobs = JobsInit
    /\ book = BookInit
    /\ parse = ParseIdle
    /\ calc \in [fn : {"calculate_kelly"}, pc : {"called"},
                 args : KellyInputs, result : {0}]
    /\ http = HttpIdle
    /\ boot = BootIdle
    /\ slots = SlotsIdle

KellyNext == CallKelly

SpecKelly == KellyInit /\ [][KellyNext]_vars

\* One check_resolutions_batch call over one or two ids.
HttpInit ==
    /\ ScanVarsInit /\ StoreInit /\ VenueInit /\ TaskInit /\ BlindIdle
    /\ ~config.auto_trade_enabled
    /\ pipe = PipeIdle
    /\ jobs = JobsInit
    /\ book = BookInit
    /\ parse = ParseIdle
    /\ calc = CalcIdle
    /\ http = HttpIdle
    /\ boot = BootIdle
    /\ slots = SlotsIdle

HttpNext ==
    \/ \E ids \in {<<"A">>, <<"A", "B">>, <<"B", "A">>} : BatchStart(ids)
    \/ SendRequest
    \/ \E o \in Outcomes :
          \/ AttemptResponse(o)
          \/ AttemptFatal(o)
          \/ AttemptRetry(o)
          \/ AttemptExhausted(o)
    \/ BatchReturn

SpecHttp == HttpInit /\ [][HttpNext]_vars

\* Every request sent is answered or fails within the client's timeout, and
\* the event loop goes on with the coroutine.
SpecHttpFair == SpecHttp /\ WF_vars(HttpNext)

\* A process from its start, its scans, and its restarts.
BootInit ==
    /\ ScanVarsInit /\ StoreInit /\ VenueInit /\ TaskInit /\ BlindIdle
    /\ ~config.auto_trade_enabled
    /\ pipe = PipeIdle
    /\ jobs = JobsInit
    /\ book = BookInit
    /\ parse = ParseIdle
    /\ calc = CalcIdle
    /\ http = HttpIdle
    /\ boot = [BootIdle EXCEPT !.pc = "starting"]
    /\ slots = SlotsIdle

BootNext ==
    \/ LifespanStartup
    \/ Tick
    \/ ProcessRestart
    \/ boot.pc = "up" /\ ScanNext

SpecBoot == BootInit /\ [][BootNext]_vars

\* One scan over its fetched markets, in either mode, next to one
\* re-estimate pass.
SlotsInit ==
    /\ ScanVarsInit /\ StoreInit /\ VenueInit /\ TaskInit /\ BlindIdle
    /\ ~config.auto_trade_enabled
    /\ pipe = PipeIdle
    /\ jobs = JobsInit
    /\ book = BookInit
    /\ parse = ParseIdle
    /\ calc = CalcIdle
    /\ http = HttpIdle
    /\ boot = BootIdle
    /\ \E m \in {"sync", "batch"} :
          slots = [SlotsIdle EXCEPT !.mode = m,
                                    !.reestimate.left = MaxSweepMarkets]

SlotsNext ==
    \/ \E t \in ScanTasks :
          \/ PrepareBegin(t)
          \/ PrepareSkipped(t)
          \/ \E should_research \in BOOLEAN : ScreenReturn(t, should_research)
          \/ EstimateAcquire(t)
          \/ EstimateRelease(t)
          \/ FallbackAcquire(t)
    \/ BatchFallbackBegin
    \/ ReestimateAcquire
    \/ ReestimateRelease

SpecSlots == SlotsInit /\ [][SlotsNext]_vars

\* recalculate_bankroll called twice on a config table and a trades table.
BankrollInit ==
    /\ ScanVarsInit /\ StoreInit /\ VenueInit /\ TaskInit /\ BlindIdle
    /\ ~config.auto_trade_enabled
    /\ pipe = PipeIdle
    /\ jobs = JobsInit
    /\ book = BookInit
    /\ parse = ParseIdle
    /\ http = HttpIdle
    /\ boot = BootIdle
    /\ slots = SlotsIdle
    /\ \E table \in ConfigTables, rows \in PnlTables :
          calc = [fn |-> "recalculate_bankroll", pc |-> "called", calls |-> 0,
                  given |-> table, table |-> table, rows |-> rows,
                  first |-> table]

BankrollNext == CallRecalculate

SpecBankroll == BankrollInit /\ [][BankrollNext]_vars

\* calculate_ev over probabilities and prices in whole percent.
EvInit ==
    /\ ScanVarsInit /\ StoreInit /\ VenueInit /\ TaskInit /\ BlindIdle
    /\ ~config.auto_trade_enabled
    /\ pipe = PipeIdle
    /\ jobs = JobsInit
    /\ book = BookInit
    /\ parse = ParseIdle
    /\ http = HttpIdle
    /\ boot = BootIdle
    /\ slots = SlotsIdle
    /\ calc \in [fn : {"calculate_ev"}, pc : {"called"},
                 args : [ai_probability : 0..100, market_price : 0..100],
                 result : {NoEv}, mirrored : {NoEv}]

EvNext == CallEv

SpecEv == EvInit /\ [][EvNext]_vars

\* calculate_brier_score over probabilities in steps of 0.001.
BrierInit ==
    /\ ScanVarsInit /\ StoreInit /\ VenueInit /\ TaskInit /\ BlindIdle
    /\ ~config.auto_trade_enabled
    /\ pipe = PipeIdle
    /\ jobs = JobsInit
    /\ book = BookInit
    /\ parse = ParseIdle
    /\ http = HttpIdle
    /\ boot = BootIdle
    /\ slots = SlotsIdle
    /\ calc \in [fn : {"calculate_brier_score"}, pc : {"called"},
                 args : [probability : 0..1000],
                 result : {0}, mirrored : {0}]

BrierNext == CallBrier

SpecBrier == BrierInit /\ [][BrierNext]_vars

\* should_recommend around each threshold, with and without each optional
\* argument.
RecommendEvs == {-100, 0, 299, 300, 499, 500, 799, 800, 999, 1000, 1199, 1200, 1500}

RecommendConfidences == {"none", "low", "medium", "high"}

RecommendEstimates == {-1, 0, 41, 42, 50, 58, 59, 100}

RecommendMinEdges == {-1, 0, 300, 1000}

RecommendInit ==
    /\ ScanVarsInit /\ StoreInit /\ VenueInit /\ TaskInit /\ BlindIdle
    /\ ~config.auto_trade_enabled
    /\ pipe = PipeIdle
    /\ jobs = JobsInit
    /\ book = BookInit
    /\ parse = ParseIdle
    /\ http = HttpIdle
    /\ boot = BootIdle
    /\ slots = SlotsIdle
    /\ calc \in [fn : {"should_recommend"}, pc : {"called"},
                 args : [ev : RecommendEvs, confidence : RecommendConfidences,
                         ai_estimate : RecommendEstimates,
                         min_edge : RecommendMinEdges],
                 result : {FALSE}]

RecommendNext == CallShouldRecommend

SpecRecommend == RecommendInit /\ [][RecommendNext]_vars

\* One response of the model, parsed and stored.
ParseInit ==
    /\ ScanVarsInit /\ StoreInit /\ VenueInit /\ TaskInit /\ BlindIdle
    /\ ~config.auto_trade_enabled
    /\ pipe = PipeIdle
    /\ jobs = JobsInit
    /\ book = BookInit
    /\ parse \in [pc : {"raw"}, raw_prob : RawProbabilities,
                  raw_confidence : RawConfidences, output : {NoOutput}]
    /\ calc = CalcIdle
    /\ http = HttpIdle
    /\ boot = BootIdle
    /\ slots = SlotsIdle

ParseNext ==
    \/ ParseResponse
    \/ \E m \in Markets : StoreParsed(m)

SpecParse == ParseInit /\ [][ParseNext]_vars

\* The scans between start_scan and complete_scan / fail_scan.
ScansInProgress == {p \in ScanProcs : scanPc[p] \in {"fetching", "researching"}}

\* C1: at any instant at most one execution of execute_scan is between its
\* start_scan and its complete_scan / fail_scan, over all entry points.
C1_SingleFlight == Cardinality(ScansInProgress) <= 1

ActiveRecs(m) == {i \in DOMAIN recs : recs[i].market = m /\ recs[i].status = "active"}

\* C2: in every reachable state each market has at most one recommendation
\* with status active, whatever the interleaving of scan finalize,
\* re-estimate sweep and manual refresh.
C2_OneActiveRec == \A m \in Markets : Cardinality(ActiveRecs(m)) <= 1

\* A market whose older recommendation was expired by the writer of its
\* present active one while another research coroutine is still awaiting its
\* estimate for the same market.
C2_Witness ==
    \E m \in Markets :
        /\ Cardinality(ActiveRecs(m)) = 1
        /\ \E j \in DOMAIN recs : recs[j].market = m /\ recs[j].status = "expired"
        /\ \E f \in Flows : flow[f].pc = "estimating" /\ flow[f].market = m

\* C3: performance_log holds at most one row per market; a row once written
\* is never changed, and a call of insert_performance for a market that has
\* a row writes nothing and returns None.
C3_OnePerfRow ==
    /\ [](\A m \in Markets : Cardinality(PerfRows(perf, m)) <= 1)
    /\ [][/\ \A i \in DOMAIN perf : i \in DOMAIN perf' /\ perf'[i] = perf[i]
          /\ \A m \in Markets :
                PerfRows(perf, m) # {} => PerfRows(perf', m) = PerfRows(perf, m)
          /\ perf' # perf => perfResult' = "row"
          /\ perfResult' = "none" => perf' = perf]_vars

\* A second insert_performance call for a market was made and returned None
\* while the market's one row stayed.
C3_Witness ==
    /\ perfResult = "none"
    /\ \E m \in Markets : Cardinality(PerfRows(perf, m)) = 1

RECURSIVE SumClosedPnl(_, _)
\* Sum of pnl over the closed trades among the first n trades, in 1e-4 dollars
SumClosedPnl(ts, n) ==
    IF n = 0 THEN 0
    ELSE SumClosedPnl(ts, n - 1)
         + (IF ts[n].status = "closed" /\ ts[n].pnl_set THEN ts[n].pnl ELSE 0)

\* C8: the stored bankroll equals initial_bankroll plus the pnl of all closed
\* trades (bankroll in cents, pnl in 1e-4 dollars).
C8_BankrollMatchesPnl ==
    config.bankroll * 100
        = config.initial_bankroll * 100 + SumClosedPnl(trades, Len(trades))

\* C9: a market's status only goes from active to resolved or closed, and a
\* resolved or closed market keeps its status and outcome.
C9_StatusMonotonic ==
    [][\A m \in Markets :
          /\ markets[m].status \in {"resolved", "closed"}
                => markets'[m] = markets[m]
          /\ markets[m].status = "active"
                => markets'[m].status \in {"active", "resolved", "closed"}]_vars

\* C10: when a resolution pass applies cancelled=true to an active market,
\* the market becomes closed, it has no active recommendation, each of its
\* open trades becomes cancelled with pnl 0 and closed_at set, and no
\* performance row is written.
C10_CancelledMarket ==
    [][\A r \in ResPasses, m \in Markets :
          (/\ respass[r].pc = "checking"
           /\ respass'[r].pc = "idle"
           /\ m \in respass[r].targets
           /\ respass[r].results[m] = "void"
           /\ markets[m].status = "active")
          => /\ markets'[m].status = "closed"
             /\ \A i \in DOMAIN recs' :
                   recs'[i].market = m => recs'[i].status # "active"
             /\ \A t \in OpenTrades(trades, m) :
                   /\ trades'[t].status = "cancelled"
                   /\ trades'[t].pnl_set
                   /\ trades'[t].pnl = 0
                   /\ trades'[t].closed_at
             /\ PerfRows(perf', m) = PerfRows(perf, m)]_vars

AutoTradesOf(r) ==
    {t \in DOMAIN trades : trades[t].rec = r /\ trades[t].via \in {"scan", "sweep"}}

\* C7: no recommendation has more than one trade created by an automatic
\* path (the in-scan auto-trade or the post-scan sweep).
C7_OneAutoTradePerRec ==
    \A r \in DOMAIN recs : Cardinality(AutoTradesOf(r)) <= 1

\* The loop of sync_kalshi_trades has just run in this step
SyncLoopStep(y) ==
    /\ sync[y].pc = "fetching"
    /\ sync'[y].pc # "fetching"
    /\ sync'[y].log # "failed"

\* C4: when the sync loop runs while an open trade carries the id order_<o>
\* and the exchange reports a fill k of order o that the store does not hold
\* yet, afterwards that same trade carries fill_<k> and it is the only trade
\* that does; and a sync whose fills are all in the store already changes no
\* trade.
C4_FillUpdatesOrderTrade ==
    [][\A y \in Syncers : SyncLoopStep(y) =>
          /\ \A k \in DOMAIN fills, t \in DOMAIN trades :
                (/\ trades[t].status = "open"
                 /\ trades[t].platform_trade_id = OrderId(fills[k].order)
                 /\ FillId(k) \notin _get_existing_synced_trade_ids(trades))
                => /\ trades'[t].platform_trade_id = FillId(k)
                   /\ Cardinality({u \in DOMAIN trades' :
                          trades'[u].platform_trade_id = FillId(k)}) = 1
          /\ (\A k \in DOMAIN fills : \E t \in DOMAIN trades :
                  trades[t].platform_trade_id = FillId(k))
             => trades' = trades]_vars

\* C6: every open trade belongs to an active market.
C6_OpenTradesOnActiveMarkets ==
    \A t \in DOMAIN trades :
        trades[t].status = "open" => markets[trades[t].market].status = "active"

\* C5: for two markets that agree on question, resolution criteria, close
\* date, category, sport type and calibration feedback and differ in prices,
\* volume or liquidity, every call path builds the same BlindMarketInput,
\* the same system prompt and the same prompt text; the requests differ at
\* most in the selected model.
C5_BlindToPrices ==
    sent.path # "none" =>
        /\ sent.requests[1].input = sent.requests[2].input
        /\ sent.requests[1].system = sent.requests[2].system
        /\ sent.requests[1].prompt = sent.requests[2].prompt

\* Two markets of different volume went down the estimate path: the volume
\* selected different models and the prompts are the same.
C5_Witness ==
    /\ sent.path = "sync_estimate"
    /\ mdata[1].volume # mdata[2].volume
    /\ mdata[1].price_yes # mdata[2].price_yes
    /\ sent.requests[1].model # sent.requests[2].model
    /\ sent.requests[1].prompt = sent.requests[2].prompt

\* C11: every market whose status is resolved has exactly one performance
\* row (the resolving operation is one step, so this is stated on every state).
C11_ResolvedHasPerfRow ==
    \A m \in Markets :
        markets[m].status = "resolved" => Cardinality(PerfRows(perf, m)) = 1

\* The HTTP triggers that were accepted and whose scan has not yet reached
\* complete_scan / fail_scan.
AcceptedTriggers ==
    {p \in HttpProcs : scanPc[p] \in {"queued", "fetching", "researching"}}

\* C12: of two scan triggers issued back-to-back exactly one is accepted and
\* the other is rejected as busy: at no time are two triggers accepted with
\* neither scan finished.
C12_OneTriggerAccepted == Cardinality(AcceptedTriggers) <= 1

\* The markets of the scan that did not raise themselves and were left
\* without an outcome
Unprocessed(pp) == ItemsIn(pp, {"fetched", "estimating", "prepared"})

\* C13: when preparing, estimating or finalizing a market raised, every other
\* fetched market still got its outcome and the scan ended in phase complete.
\* (A batch that times out as a whole and a failing save_scan_summary are not
\* failures of a single market.)
C13_MarketFailureContained ==
    (/\ pipe.pc = "done"
     /\ ItemsIn(pipe, {"prepare_failed", "failed"}) # {}
     /\ pipe.batch # "timeout"
     /\ ~pipe.summary_failed)
        => /\ Unprocessed(pipe) = {}
           /\ progress.phase = "complete"
           /\ ~progress.is_running

\* A batch scan whose second market raised in finalize after its estimate was
\* stored, while the first and the third were finalized.
C13_Witness ==
    /\ pipe.pc = "done"
    /\ pipe.mode = "batch"
    /\ pipe.item[2] = [st |-> "failed", rows |-> 1]
    /\ pipe.item[1].st = "recommended"
    /\ pipe.item[3].st = "researched"
    /\ progress.phase = "complete"

\* The markets that were prepared and handed to the batch
PreparedItems(pp) ==
    ItemsIn(pp, {"prepared", "missing", "failed", "researched", "recommended"})

\* C14: in batch mode, when the batch estimation failed or gave an empty
\* result (a poll timeout included), every prepared market was estimated and
\* finalized one by one by the end of the scan, and no prepared market got
\* more than one Estimate row.
C14_BatchFallback ==
    (pipe.pc = "done" /\ pipe.batch \in {"raised", "timeout", "empty"})
        => /\ \A i \in PreparedItems(pipe) :
                pipe.item[i].st \in {"failed", "researched", "recommended"}
           /\ \A i \in ScanItems : pipe.item[i].rows <= 1

\* C15: for each scheduled job at most one run is executing at any time; a
\* fire that arrives while a run of the job is executing starts no run.
C15_NoOverlappingRuns ==
    /\ [](\A j \in Jobs : jobs[j].instances <= 1)
    /\ [][\A j \in Jobs :
            jobs[j].instances >= 1 /\ jobs'[j].fires > jobs[j].fires =>
                jobs'[j].instances = jobs[j].instances]_vars

\* A fire of a job arrived while its previous run was executing and was
\* skipped; the run is still the only one.
C15_Witness ==
    \E j \in Jobs : jobs[j].skipped >= 1 /\ jobs[j].instances = 1

\* C16: every run of a scheduled job that failed with an exception was logged
\* and exactly one failure alert was emitted for it.
C16_OneAlertPerFailure ==
    \A j \in Jobs : jobs[j].instances = 0 => jobs[j].alerts = jobs[j].logged

\* C17: every recommendation inserted by finalize passes the confidence-gated
\* rule for its ev and its estimate's confidence and probability: never with
\* confidence low, ev >= 0.08 with medium, ev >= 0.05 with high, and
\* ev >= 0.12 whenever 0.42 <= p_ai <= 0.58.
C17_ConfidenceGate ==
    \A r \in DOMAIN recs :
        should_recommend(recs[r].ev, estimates[recs[r].estimate].confidence,
                         recs[r].ai_probability)

\* The in-scan auto-trade gate for recommendation r, and the cap on an order
\* of count contracts at ppc cents each (amounts in 1e-4 cents)
InScanGate(r) ==
    /\ config.auto_trade_enabled
    /\ recs[r].ev >= auto_trade_min_ev

WithinBet(r, count, ppc) ==
    /\ count * ppc * 10000 <= recs[r].kelly_fraction * config.bankroll
    /\ count * ppc * 10000 <= max_single_bet_fraction * config.bankroll
    /\ 1 <= ppc /\ ppc <= 99

C19_ExposureCap ==
    book.open * 100 <= max_exposure_fraction * config.bankroll

\* C20: the probability of every parsed estimate is within 0.01..0.99: a raw
\* value below 0.01 becomes 0.01, one above 0.99 becomes 0.99, a non-finite
\* one becomes 0.5, any other is kept; the stored Estimate row holds that
\* value.
C20_ProbabilityClamped ==
    parse.pc \in {"parsed", "stored"} =>
        LET raw == parse.raw_prob
            p == parse.output.probability
        IN  /\ 1 <= p /\ p <= 99
            /\ raw.kind # "finite" => p = 50
            /\ raw.kind = "finite" /\ raw.value < 1 => p = 1
            /\ raw.kind = "finite" /\ raw.value > 99 => p = 99
            /\ raw.kind = "finite" /\ 1 <= raw.value /\ raw.value <= 99
                  => p = raw.value
            /\ parse.pc = "stored" =>
                  /\ estimates # <<>>
                  /\ estimates[Len(estimates)].probability = p

\* A raw probability above 0.99 was parsed and stored as 0.99.
C20_Witness ==
    /\ parse.pc = "stored"
    /\ parse.raw_prob.kind = "finite"
    /\ parse.raw_prob.value > 99
    /\ estimates[Len(estimates)].probability = 99

\* C21: for every edge, price in 0..1, direction, confidence, fraction and
\* maxFraction, calculate_kelly returns a value between 0 and maxFraction,
\* and 0 when the denominator (1 - price for yes, price for no) is zero.
C21_KellyBounds ==
    calc.fn = "calculate_kelly" /\ calc.pc = "returned" =>
        /\ 0 <= calc.result
        /\ calc.result <= calc.args.max_bet_fraction
        /\ (calc.args.direction = "yes" /\ calc.args.market_price = 100)
              => calc.result = 0
        /\ (calc.args.direction = "no" /\ calc.args.market_price = 0)
              => calc.result = 0

\* C22: check_resolution returns None when the venue call fails, also when
\* the retries of request_with_retry are exhausted; check_resolutions_batch
\* then leaves that id out and still returns the results of the other ids.
C22_TransientFailureIsAbsent ==
    /\ \A p \in Pids :
          http.req[p].state = "error" => http.req[p].ret = "None"
    /\ http.pc # "raised"
    /\ http.pc = "returned" =>
          {r.pid : r \in http.results}
              = {p \in Pids : http.req[p].ret = "dict"}

\* What holds of every request_with_retry call at every moment
RetryPolicy ==
    \A p \in Pids :
        LET r == http.req[p]
        IN  /\ r.attempts <= 3
            /\ r.last = "4xx" =>
                  r.state = "error" /\ r.error = "HTTPStatusError"
            /\ r.first = "4xx" => r.attempts = 1
            /\ r.state = "backoff" =>
                  r.last \in {"5xx", "429", "ConnectError", "ConnectTimeout",
                              "ReadTimeout", "PoolTimeout"}
            /\ (/\ r.last \in {"5xx", "429", "ConnectError",
                               "ConnectTimeout", "ReadTimeout", "PoolTimeout"}
                /\ r.attempts < 3
                /\ r.state # "inflight") => r.state = "backoff"

C24_StaleSweepOnStartup ==
    boot.pc = "up" =>
        /\ boot.sweeps >= 1
        /\ (boot.seen.is_running /\ boot.now - boot.seen.started_at > 120)
              => ~boot.left.is_running
        /\ (boot.seen.is_running /\ boot.now - boot.seen.started_at <= 120)
              => boot.left = boot.seen

\* The phase changes the scan is said to make: a scan starts at fetching,
\* researching follows fetching, complete follows researching, and failed
\* follows a phase of a running scan
PhaseStep(from, to) ==
    \/ to = "fetching" /\ from \in {"idle", "complete", "failed"}
    \/ to = "researching" /\ from = "fetching"
    \/ to = "complete" /\ from = "researching"
    \/ to = "failed" /\ from \in {"fetching", "researching"}

\* C25: the scan phase only moves idle -> fetching -> researching ->
\* complete, or from a running phase to failed: researching is entered only
\* from fetching, complete only from researching, and a new scan starts at
\* fetching.
C25_PhaseOrder ==
    [][progress'.phase # progress.phase
          => PhaseStep(progress.phase, progress'.phase)]_vars

\* The researcher.estimate calls of the scan and of the re-estimate pass
\* that have been issued and have not returned
InFlight ==
    Cardinality({t \in ScanTasks : slots.task[t] = "estimating"})
        + (IF slots.reestimate.pc = "estimating" THEN 1 ELSE 0)

\* C26: at most 5 Researcher.estimate calls of the scan (sync mode and batch
\* fallback) and of the re-estimate pass are in flight at any instant, also
\* when both run at the same time.
C26_EstimateConcurrency == InFlight <= 5

\* Four calls of the scan and one of the re-estimate pass are in flight and
\* a sixth market waits for the semaphore.
C26_Witness ==
    /\ InFlight = 5
    /\ slots.reestimate.pc = "estimating"
    /\ \E t \in ScanTasks : slots.task[t] = "prepared"

\* C27: at most 5 markets of a scan are inside the Prepare step at any
\* instant.
C27_PrepareConcurrency ==
    Cardinality({t \in ScanTasks : slots.task[t] = "screening"}) <= 5

\* Every recommendation points at an estimate and a snapshot of its market
\* and carries that snapshot's price; every trade points at a
\* recommendation of its market
RowsReferEarlierRows ==
    /\ \A r \in DOMAIN recs :
          /\ recs[r].estimate \in DOMAIN estimates
          /\ estimates[recs[r].estimate].market = recs[r].market
          /\ recs[r].snapshot \in DOMAIN snapshots
          /\ snapshots[recs[r].snapshot].market = recs[r].market
          /\ recs[r].market_price = snapshots[recs[r].snapshot].price_yes
    /\ \A t \in DOMAIN trades :
          /\ trades[t].rec \in DOMAIN recs
          /\ recs[trades[t].rec].market = trades[t].market

\* A row is written after the rows it follows: an estimate when a snapshot
\* of its market is there, a recommendation on a snapshot that was there
\* and on an estimate written no later, a trade on a recommendation that
\* was there
WrittenInOrder ==
    /\ Len(estimates') > Len(estimates) =>
          \E s \in DOMAIN snapshots :
              snapshots[s].market = estimates'[Len(estimates')].market
    /\ Len(recs') > Len(recs) =>
          /\ recs'[Len(recs')].snapshot \in DOMAIN snapshots
          /\ recs'[Len(recs')].estimate \in DOMAIN estimates'
    /\ Len(trades') > Len(trades) =>
          trades'[Len(trades')].rec \in DOMAIN recs

\* C28: within a scan, for every market the snapshot is written before the
\* estimate, the estimate before the recommendation, the recommendation
\* before the trade; a recommendation references an estimate and a snapshot
\* of its own market written earlier, and its market_price is that
\* snapshot's price_yes.
C28_WriteOrder ==
    /\ []RowsReferEarlierRows
    /\ [][WrittenInOrder]_vars

\* A trade was written on a recommendation of a scan while the store holds
\* two snapshots of different prices.
C28_Witness ==
    /\ trades # <<>>
    /\ recs # <<>>
    /\ \E s, u \in DOMAIN snapshots :
          snapshots[s].price_yes # snapshots[u].price_yes

\* Whether the exchange reports the order behind trade row tr as canceled
OrderCanceled(tr) ==
    /\ tr.platform_trade_id.kind = "order"
    /\ orders[tr.platform_trade_id.id].status = "canceled"

\* C29: after order reconciliation every open trade whose id is order_<id>
\* of an order the exchange reports as canceled is cancelled with pnl 0 and
\* closed_at set, and every other trade is as it was.
C29_ReconcileFrame ==
    [][\A y \in Syncers :
          (sync[y].pc = "reconciling" /\ sync'[y].log = "completed") =>
              \A t \in DOMAIN trades :
                  IF trades[t].status = "open" /\ OrderCanceled(trades[t])
                  THEN /\ trades'[t].status = "cancelled"
                       /\ trades'[t].pnl_set
                       /\ trades'[t].pnl = 0
                       /\ trades'[t].closed_at
                  ELSE trades'[t] = trades[t]]_vars

\* C30: recalculate_bankroll is idempotent: a second call with no trade
\* change in between leaves the same bankroll and initial_bankroll as the
\* first, and does not start from the bankroll the first call wrote.
C30_RecalculateIdempotent ==
    (calc.fn = "recalculate_bankroll" /\ calc.calls = 2) =>
        /\ calc.table.bankroll = calc.first.bankroll
        /\ calc.table.initial_bankroll = calc.first.initial_bankroll
        /\ calc.table.initial_bankroll
              = get_config(calc.given).initial_bankroll

\* Two calls were made with closed trades of a pnl that is not zero, on a
\* table whose bankroll row differs from the initial bankroll.
C30_Witness ==
    /\ calc.fn = "recalculate_bankroll"
    /\ calc.calls = 2
    /\ cumulative_pnl(calc.rows, Len(calc.rows)) # 0
    /\ calc.given.initial_bankroll = -1
    /\ get_config(calc.given).bankroll # get_config(calc.given).initial_bankroll
    /\ calc.table.bankroll # calc.given.bankroll

\* The ev of the side a result names, before rounding, in 1e-6
SideEv(res, pp, pc) ==
    IF res.direction = "yes" THEN (pp - pc) * 10000 - kalshi_fee(pc)
    ELSE (pc - pp) * 10000 - kalshi_fee(100 - pc)

\* C31: calculate_ev(p_ai, p_mkt) and calculate_ev(1 - p_ai, 1 - p_mkt) are
\* both absent or name opposite directions with the same edge, and a result
\* names a side whose ev is above 0.
C31_EvSymmetry ==
    (calc.fn = "calculate_ev" /\ calc.pc = "returned") =>
        LET pp == calc.args.ai_probability
            pc == calc.args.market_price
        IN  /\ (calc.result = NoEv) <=> (calc.mirrored = NoEv)
            /\ calc.result # NoEv =>
                  /\ calc.mirrored.direction # calc.result.direction
                  /\ calc.mirrored.edge = calc.result.edge
                  /\ SideEv(calc.result, pp, pc) > 0
                  /\ SideEv(calc.mirrored, 100 - pp, 100 - pc) > 0

\* A YES result at a price below one half and its NO mirror image.
C31_Witness ==
    /\ calc.fn = "calculate_ev"
    /\ calc.pc = "returned"
    /\ calc.result.direction = "yes"
    /\ calc.mirrored.direction = "no"
    /\ calc.args.market_price = 40
    /\ calc.result.edge = 3000

\* C32: for every probability p, calculate_brier_score(p, true) +
\* calculate_brier_score(1 - p, false) = 2p^2 - 2p + 1.  Both sides in 1e-6.
C32_BrierIdentity ==
    (calc.fn = "calculate_brier_score" /\ calc.pc = "returned") =>
        LET p == calc.args.probability
        IN  (calc.result + calc.mirrored) * 100
                = 2 * p * p - 2000 * p + 1000000

\* C32 as the code has it: for every probability p,
\* calculate_brier_score(p, true) + calculate_brier_score(1 - p, false)
\* = 2 * (1 - p)^2, each score rounded to four decimals.
C32_BrierIdentityAmended ==
    (calc.fn = "calculate_brier_score" /\ calc.pc = "returned") =>
        LET p == calc.args.probability
        IN  /\ calc.result = calc.mirrored
            /\ calc.result + calc.mirrored
                  = 2 * Round((1000 - p) * (1000 - p), 100)

\* The two scores of p = 0.9: 0.01 each, where 2p^2 - 2p + 1 is 0.82.
C32_Witness ==
    /\ calc.fn = "calculate_brier_score"
    /\ calc.pc = "returned"
    /\ calc.args.probability = 900
    /\ calc.result = 100
    /\ calc.mirrored = 100

\* The reference rule of the specification, on the arguments of the call
ReferenceRule ==
    LET a == calc.args IN
    IF a.ai_estimate # -1 /\ a.ai_estimate >= 42 /\ a.ai_estimate <= 58
    THEN a.ev >= 1200
    ELSE IF a.confidence = "low" THEN FALSE
    ELSE IF a.confidence = "medium" THEN a.ev >= 800
    ELSE IF a.confidence = "high" THEN a.ev >= 500
    ELSE a.ev >= (IF a.min_edge = -1 THEN min_edge_threshold ELSE a.min_edge)

\* C33: should_recommend(ev, confidence, p_ai, minEdge) returns what the
\* reference rule gives for every input: ev >= 0.12 when p_ai is given and
\* lies in [0.42, 0.58], whatever the confidence; otherwise false for low,
\* ev >= 0.08 for medium, ev >= 0.05 for high, and ev >= minEdge when no
\* confidence is given.
C33_ShouldRecommendRule ==
    (calc.fn = "should_recommend" /\ calc.pc = "returned")
        => (calc.result <=> ReferenceRule)

\* A high-confidence coin-flip estimate with ev 0.10 is turned down
C33_Witness ==
    /\ calc.fn = "should_recommend"
    /\ calc.pc = "returned"
    /\ calc.args.confidence = "high"
    /\ calc.args.ai_estimate = 50
    /\ calc.args.ev = 1000
    /\ ~calc.result

\* C34: every scan that has set is_running to true eventually sets it back to
\* false (complete_scan or fail_scan), whichever step of execute_scan fails,
\* the steps between start_scan and the try block included.
C34_RunningEventuallyCleared ==
    progress.is_running ~> ~progress.is_running

\* What a closed trade's contracts paid, in 1e-4 dollars: each of its shares
\* pays one dollar when its side won, nothing otherwise; the amount paid and
\* the fees are in cents.
ContractsPnl(tr, won) ==
    (IF won THEN tr.shares * 10000 ELSE 0) - tr.amount * 100
        - tr.fees_paid * 100

\* C35: every trade closed by the resolution of its market gets the pnl of
\* its contracts: shares - amount - fees_paid when its side won and
\* -amount - fees_paid when it lost, for YES and for NO trades, a NO trade
\* carrying the NO-side price per contract as its entry_price.
C35_PnlMatchesContracts ==
    [][\A t \in DOMAIN trades :
          (trades[t].status = "open" /\ trades'[t].status = "closed")
              => /\ trades'[t].pnl_set
                 /\ trades'[t].pnl =
                        ContractsPnl(trades'[t],
                            trades'[t].direction
                                = markets'[trades'[t].market].outcome)]_vars

\* Order o is still awaited by the coroutine that sent it
OrderAwaited(o) ==
    \/ \E f \in Flows : flow[f].pc = "ordering" /\ flow[f].order = o
    \/ \E w \in Sweepers : sweep[w].pc = "ordering" /\ sweep[w].order = o

\* C36: every order the exchange acknowledged in the auto-trade step or in
\* the sweep has, once the step that sent it is over, a trade row with the
\* id 'order_<order id>' that references a recommendation, whatever failed
\* after the acknowledgement.
C36_AcknowledgedOrderHasTrade ==
    \A o \in DOMAIN orders :
        \/ OrderAwaited(o)
        \/ \E t \in DOMAIN trades :
              /\ trades[t].platform_trade_id = [kind |-> "order", id |-> o]
              /\ trades[t].rec # 0

\* C37: no recommendation is active while its market is resolved or closed:
\* resolution resolves the market's active recommendations, cancellation
\* expires them, and no flow inserts an active recommendation for a market
\* that is not active.
C37_NoActiveRecOnEndedMarket ==
    \A r \in DOMAIN recs :
        recs[r].status = "active"
            => markets[recs[r].market].status \notin {"resolved", "closed"}

\* Market m is marked resolved and part of its resolution is missing
ResolutionIncomplete(m) ==
    /\ markets[m].status = "resolved"
    /\ \/ OpenTrades(trades, m) # {}
       \/ \E r \in DOMAIN recs : recs[r].market = m /\ recs[r].status = "active"
       \/ HasEstimateAndSnapshot(m) /\ PerfRows(perf, m) = {}

\* C38: when the resolution of a market raised after the market was marked
\* resolved, a later resolution pass completes it: its open trades are
\* closed, its Performance row is written and its active recommendations are
\* resolved.
C38_LaterPassCompletes ==
    \A m \in Markets :
        ((\E r \in ResPasses : respass[r].pc = "raised")
             /\ ResolutionIncomplete(m))
            ~> ~ResolutionIncomplete(m)

\* C39: every trade the post-scan sweep creates has the direction of the
\* recommendation it references, also when the latest snapshot price has
\* moved to the other side of the recommendation's AI probability.
C39_SweepKeepsDirection ==
    \A t \in DOMAIN trades :
        (trades[t].via = "sweep" /\ trades[t].rec # 0)
            => trades[t].direction = recs[trades[t].rec].direction

\* C40: a price movement between the two latest snapshots of a market
\* triggers at most one re-estimate: once check_and_reestimate has stored its
\* estimate for the market, the market no longer counts as moved, so a later
\* run without a new snapshot does not re-estimate it.
C40_OneReestimatePerMovement ==
    [][\A f \in Flows, m \in Markets :
          (/\ flow[f].pc = "estimating"
           /\ flow[f].kind = "reestimate"
           /\ flow[f].market = m
           /\ flow'[f].pc = "idle"
           /\ Len(estimates') = Len(estimates) + 1)
              => ~PriceMoved(m)']_vars

====
